---------------------------- MODULE Spec2Model ----------------------------
(***************************************************************************)
(* A model of rustcask, a Bitcask-style key-value store.                   *)
(*                                                                         *)
(* Data files are modelled byte for byte: a record is the bincode          *)
(* encoding of LogFileEntry {key: Vec<u8>, value: Option<Vec<u8>>}         *)
(* (u64 little-endian length, the bytes, a one-byte Option tag, and for    *)
(* Some another length-prefixed byte string).  The keydir maps a key to    *)
(* (data_file_gen, offset, len).                                           *)
(*                                                                         *)
(* Spec models the engine handle of src/lib.rs (RustCask: open, clone,     *)
(* set, get, remove, rotate_active_data_file).  SpecWriter models the      *)
(* Writer of src/writer.rs (new, set, remove, merge) over the same disk    *)
(* and keydir; SpecSetRemove is SpecWriter without merge, SpecWorkload a   *)
(* Writer on a fresh directory with set and remove only, SpecMergeIo the   *)
(* Writer on a file system whose remove_file can fail.  SpecOpen is open   *)
(* on a path that may be missing, a file, or a directory holding other     *)
(* files.  SpecThreads runs set, get and remove of src/lib.rs statement    *)
(* by statement on two threads with their locks; SpecMerging does so for   *)
(* Writer::merge next to get, set and remove.  SpecClones is SpecThreads   *)
(* on a directory that was empty at open, SpecCloned the calls of two      *)
(* handles from the open and the clone on.  SpecMergeCrash lets the        *)
(* process stop inside merge, SpecIo lets the I/O calls of set, remove     *)
(* and merge fail, SpecBuild opens a directory whose data files earlier    *)
(* runs have written, and SpecSync takes set and remove one I/O call at a  *)
(* time: write_all, flush, sync_all.  SpecSetError lets the I/O calls of   *)
(* RustCask::set return an error, and SpecMergingFair is SpecMerging       *)
(* under a scheduler that runs every thread that can take a step.          *)
(***************************************************************************)
EXTENDS Integers, Sequences, FiniteSets, TLC

\* ------------------------------------------------------------------ bounds

\* Operations performed in one behaviour.
MaxOps == 5

\* Frames of BufReaderWithPos::seek that fit on the thread's stack.
StackDepth == 3

\* ------------------------------------------------------------------ inputs

Keys == { <<1>>, <<2>> }

Values == { <<7>>, <<8, 9>> }

HandleIds == { 1, 2 }

\* pub const MAX_DATA_FILE_SIZE: u64 = 2 * 1024 * 1024 * 1024 (2 GiB), written
\* here as the largest integer below it that the checker's integers hold.
MAX_DATA_FILE_SIZE == 2147483647

\* The values RustCaskBuilder::set_max_data_file_size is called with: 1
\* rotates on every write, 20 rotates once a second record is in the file,
\* the default never rotates within the bounds.
MaxSizes == { 1, 20, MAX_DATA_FILE_SIZE }

\* ------------------------------------------------------------------ Option

None == [some |-> FALSE, v |-> <<>>]

Some(x) == [some |-> TRUE, v |-> x]

\* ------------------------------------------------------------------ record codec

LogFileEntry(k, optv) == [key |-> k, value |-> optv]

create_tombstone_entry(k) == LogFileEntry(k, None)

\* A u64 as bincode writes it: eight bytes, little endian.
LE8(n) == << n % 256, (n \div 256) % 256, 0, 0, 0, 0, 0, 0 >>

\* bincode::serialize(&LogFileEntry)
serialize(entry) ==
    LE8(Len(entry.key)) \o entry.key \o
    ( IF entry.value.some
        THEN <<1>> \o LE8(Len(entry.value.v)) \o entry.value.v
        ELSE <<0>> )

\* The bytes of a stream from position pos (0-based) on.
Rest(bytes, pos) == SubSeq(bytes, pos + 1, Len(bytes))

\* A u64 length read from eight bytes; -1 stands for a length beyond any
\* file of the model (a non-zero byte among the six high bytes).
ReadLen(b) ==
    IF \A i \in 3..8 : b[i] = 0 THEN b[1] + 256 * b[2] ELSE -1

\* ReadVec with the position advanced by the length prefix only.
ReadVec_counts_length_only(s) ==
    IF Len(s) < 8 THEN [kind |-> "eof", bytes |-> <<>>, used |-> 0]
    ELSE LET n == ReadLen(SubSeq(s, 1, 8)) IN
         IF n < 0 \/ Len(s) < 8 + n
           THEN [kind |-> "eof", bytes |-> <<>>, used |-> 0]
           ELSE [kind |-> "ok", bytes |-> SubSeq(s, 9, 8 + n), used |-> 8]

\* Reads a Vec<u8> from the front of s: [kind, bytes, used].  A stream that
\* ends before the length or before the last byte gives UnexpectedEof.
ReadVec(s) ==
    IF Len(s) < 8 THEN [kind |-> "eof", bytes |-> <<>>, used |-> 0]
    ELSE LET n == ReadLen(SubSeq(s, 1, 8)) IN
         IF n < 0 \/ Len(s) < 8 + n
           THEN [kind |-> "eof", bytes |-> <<>>, used |-> 0]
           ELSE [kind |-> "ok", bytes |-> SubSeq(s, 9, 8 + n), used |-> 8 + n]

\* bincode::deserialize_from::<_, LogFileEntry>(reader) with the reader at
\* position pos of bytes: [kind, entry, used].  kind is "ok", "eof"
\* (ErrorKind::Io(UnexpectedEof)) or "invalid" (an Option tag that is
\* neither 0 nor 1).
deserialize_from(bytes, pos) ==
    LET s == Rest(bytes, pos)
        k == ReadVec(s)
        bad(kind) == [kind |-> kind, entry |-> LogFileEntry(<<>>, None), used |-> 0]
    IN  IF k.kind # "ok" THEN bad("eof")
        ELSE IF Len(s) < k.used + 1 THEN bad("eof")
        ELSE LET tag == s[k.used + 1] IN
             IF tag = 0
               THEN [kind |-> "ok", entry |-> LogFileEntry(k.bytes, None),
                     used |-> k.used + 1]
             ELSE IF tag = 1
               THEN LET v == ReadVec(SubSeq(s, k.used + 2, Len(s))) IN
                    IF v.kind # "ok" THEN bad("eof")
                    ELSE [kind |-> "ok", entry |-> LogFileEntry(k.bytes, Some(v.bytes)),
                          used |-> k.used + 1 + v.used]
             ELSE bad("invalid")

\* ------------------------------------------------------------------ log file iterator

LogIndex(off, n) == [offset |-> off, len |-> n]

\* LogFileIterator, collected: the (entry, index) pairs next() yields from
\* position pos on, and whether next() panicked.  next() returns None on
\* every UnexpectedEof and panics on every other error.
RECURSIVE LogFileIterator(_, _)
LogFileIterator(bytes, pos) ==
    LET d == deserialize_from(bytes, pos) IN
    IF d.kind = "ok"
      THEN LET rest == LogFileIterator(bytes, pos + d.used) IN
           [items |-> << [entry |-> d.entry, index |-> LogIndex(pos, d.used)] >>
                       \o rest.items,
            panicked |-> rest.panicked]
    ELSE IF d.kind = "eof" THEN [items |-> <<>>, panicked |-> FALSE]
    ELSE [items |-> <<>>, panicked |-> TRUE]

\* ------------------------------------------------------------------ keydir

KeyDirEntry(gen, index) == [data_file_gen |-> gen, index |-> index]

KeyDir_new_empty == [k \in {} |-> KeyDirEntry(0, LogIndex(0, 0))]

KeyDir_set(kd, k, gen, index) ==
    [x \in DOMAIN kd \cup {k} |-> IF x = k THEN KeyDirEntry(gen, index) ELSE kd[x]]

KeyDir_remove(kd, k) == [x \in DOMAIN kd \ {k} |-> kd[x]]

\* populate_keydir_with_data_file: applies the records of one data file, in
\* file order, to the keydir.
RECURSIVE ApplyItems(_, _, _)
ApplyItems(kd, items, gen) ==
    IF items = <<>> THEN kd
    ELSE LET it == Head(items) IN
         ApplyItems( IF it.entry.value.some
                       THEN KeyDir_set(kd, it.entry.key, gen, it.index)
                       ELSE KeyDir_remove(kd, it.entry.key),
                     Tail(items), gen )

\* populate_keydir_with_data_file passing over the tombstones.
populate_keydir_skips_tombstones(kd, bytes, gen) ==
    ApplyItems(kd, SelectSeq(LogFileIterator(bytes, 0).items,
                             LAMBDA it : it.entry.value.some), gen)

populate_keydir_with_data_file(kd, bytes, gen) ==
    ApplyItems(kd, LogFileIterator(bytes, 0).items, gen)

\* The generations of gens in ascending order (generations.sort_unstable()).
RECURSIVE Sorted(_)
Sorted(gens) ==
    IF gens = {} THEN <<>>
    ELSE LET m == CHOOSE g \in gens : \A o \in gens : g <= o IN
         <<m>> \o Sorted(gens \ {m})

\* build_keydir / KeyDir::new: replays the data files in generation order.
RECURSIVE BuildFrom(_, _, _)
BuildFrom(kd, gens, fs) ==
    IF gens = <<>> THEN kd
    ELSE BuildFrom(populate_keydir_with_data_file(kd, fs[Head(gens)], Head(gens)),
                   Tail(gens), fs)

build_keydir(gens, fs) == BuildFrom(KeyDir_new_empty, Sorted(gens), fs)

\* Whether the scan of some data file panics (a malformed record).
BuildPanics(gens, fs) == \E g \in gens : LogFileIterator(fs[g], 0).panicked

\* ------------------------------------------------------------------ buffered reader

\* impl Seek for BufReaderWithPos: the body of seek starts with
\*     let offset = self.seek(pos)?;
\* which is a call of this same method on the same receiver, before the
\* inner reader is touched.  Each call takes a stack frame; when no frame
\* is left the stack overflows and the process is aborted.  The result is
\* [returns, offset]: returns is FALSE when the call never hands back an
\* offset.
RECURSIVE BufReaderWithPos_seek(_, _)
BufReaderWithPos_seek(target, depth) ==
    IF depth >= StackDepth
      THEN [returns |-> FALSE, offset |-> 0]
      ELSE LET inner == BufReaderWithPos_seek(target, depth + 1) IN
           IF inner.returns
             THEN [returns |-> TRUE, offset |-> inner.offset]
             ELSE inner

\* ------------------------------------------------------------------ results

Res(kind, optv) == [kind |-> kind, value |-> optv]

Ok(optv) == Res("ok", optv)

\* A returned Err (GetError, RemoveError kinds Io / Deserialize).
Err == Res("err", None)

\* OpenError { kind: OpenErrorKind::BadDirectory, .. }
BadDirectory == Res("BadDirectory", None)

\* The calling thread panicked (expect / unwrap / assert failed).
Panic == Res("panic", None)

\* The process was aborted (stack overflow).
Abort == Res("abort", None)

\* The tail of get and of remove once the keydir entry e of key k is known
\* and the reader of its generation was found: seek to the record, decode
\* it, check the key, unwrap the value.
read_entry(fs, e, k) ==
    LET s == BufReaderWithPos_seek(e.index.offset, 0) IN
    IF ~s.returns THEN Abort
    ELSE LET d == deserialize_from(fs[e.data_file_gen], s.offset) IN
         IF d.kind # "ok" THEN Err
         ELSE IF d.entry.key # k THEN Panic
         ELSE IF ~d.entry.value.some THEN Panic
         ELSE Ok(Some(d.entry.value.v))

\* ------------------------------------------------------------------ files

Max(a, b) == IF a >= b THEN a ELSE b

\* write_all at file position pos of a file opened without append and
\* without truncate: bytes under the written range are replaced, the file
\* grows when the range ends beyond its end.
WriteAt(bytes, pos, data) ==
    [i \in 1..Max(Len(bytes), pos + Len(data)) |->
        IF i > pos /\ i <= pos + Len(data) THEN data[i - pos] ELSE bytes[i]]

HighestGen(gens) == CHOOSE g \in gens : \A o \in gens : o <= g

\* ------------------------------------------------------------------ file names

\* A file name is [stem, suffix]: the characters before the first '.' and
\* the rest.  A character is a code: 0..9 the ASCII digits '0'..'9', 10 a
\* decimal digit outside ASCII (such as U+0663), 11 a letter.
FileName(stem, suffix) == [stem |-> stem, suffix |-> suffix]

\* Regex ^\d+\.rustcask\.data$ on the file name; \d of the regex crate
\* matches every Unicode decimal digit.
is_data_file(name) ==
    /\ Len(name.stem) >= 1
    /\ \A i \in DOMAIN name.stem : name.stem[i] \in 0..10
    /\ name.suffix = ".rustcask.data"

\* The decimal digits of u64::MAX = 18446744073709551615.
U64MaxDigits == << 1, 8, 4, 4, 6, 7, 4, 4, 0, 7, 3, 7, 0, 9, 5, 5, 1, 6, 1, 5 >>

RECURSIVE StripZeros(_)
StripZeros(ds) ==
    IF Len(ds) > 1 /\ Head(ds) = 0 THEN StripZeros(Tail(ds)) ELSE ds

\* a > b for digit strings of the same length
RECURSIVE DigitsGreater(_, _)
DigitsGreater(a, b) ==
    IF a = <<>> THEN FALSE
    ELSE IF Head(a) # Head(b) THEN Head(a) > Head(b)
    ELSE DigitsGreater(Tail(a), Tail(b))

RECURSIVE DigitsValue(_, _)
DigitsValue(ds, acc) ==
    IF ds = <<>> THEN acc ELSE DigitsValue(Tail(ds), 10 * acc + Head(ds))

\* str::parse::<u64>: an error for an empty string, for a character that is
\* not an ASCII digit and for a value above u64::MAX.
parse_u64(ds) ==
    LET z == StripZeros(ds) IN
    IF ds = <<>> \/ \E i \in DOMAIN ds : ds[i] \notin 0..9
      THEN [ok |-> FALSE, gen |-> 0]
    ELSE IF Len(z) > Len(U64MaxDigits)
            \/ (Len(z) = Len(U64MaxDigits) /\ DigitsGreater(z, U64MaxDigits))
      THEN [ok |-> FALSE, gen |-> 0]
    ELSE [ok |-> TRUE, gen |-> DigitsValue(z, 0)]

\* parse_generation_number: the text before the first '.', parsed as u64;
\* .expect(..) panics when the parse fails (ok = FALSE).
parse_generation_number(name) == parse_u64(name.stem)

\* Names that are not <gen>.rustcask.data for any generation: a hint file,
\* a text file, a data-file suffix after a letter, after a digit outside
\* ASCII, and after a number above u64::MAX.
ForeignNames ==
    { FileName(<<1>>, ".rustcask.hint"),
      FileName(<<11>>, ".txt"),
      FileName(<<11, 1>>, ".rustcask.data"),
      FileName(<<10>>, ".rustcask.data"),
      FileName(<<9, 9, 9, 9, 9, 9, 9, 9, 9, 9, 9, 9, 9, 9, 9, 9, 9, 9, 9, 9>>,
               ".rustcask.data") }

\* What the path given to open can be.
PathKinds == { "dir", "file", "missing" }

\* Path::is_dir taken for Path::exists
is_dir_exists(p) == p # "missing"

\* Path::is_dir
is_dir(p) == p = "dir"

\* ------------------------------------------------------------------ state

VARIABLES
    files,          \* generation -> the bytes of <gen>.rustcask.data
    dir,            \* the generations that have a data file in the directory
    keydir,         \* Arc<RwLock<KeyDir>>: key -> KeyDirEntry
    keydirPoisoned, \* the keydir RwLock is poisoned
    handles,        \* the live RustCask values: handle id -> its fields
    bufWriters,     \* the Arc<Mutex<BufWriter<File>>> objects of the process
    writer,         \* the Writer of src/writer.rs, with its Readers
    hist,           \* the last three calls: [op, h, key, value, res]
    nops,           \* calls made so far
    th,             \* per thread: where it is inside the call it is making
    extra,          \* names in the directory other than <gen>.rustcask.data
    path,           \* what the path given to open is: "dir", "file", "missing"
    io              \* sync_mode, the bytes held by the BufWriter of the active
                    \* data file, and generation -> bytes of its file made
                    \* durable by sync_all

vars == << files, dir, keydir, keydirPoisoned, handles, bufWriters, writer, hist, nops,
           th, extra, path, io >>

\* A thread that is not inside a call.  holds is the index of the writer
\* mutex whose guard the thread has (0: none), off the file offset its
\* record was written at.
\* entry is the keydir entry remove took out of the keydir.
Idle == [pc |-> "idle", key |-> <<>>, value |-> None, holds |-> 0, off |-> 0,
         entry |-> KeyDirEntry(0, LogIndex(0, 0))]

IdleThreads == [t \in HandleIds |-> Idle]

NoHandles == [h \in {} |-> 0]

\* sync_mode off (the default of RustCaskBuilder), an empty write buffer and
\* nothing made durable.
NoIo == [sync_mode |-> FALSE, buffer |-> <<>>, durable |-> [g \in {} |-> 0]]

\* No Writer has been constructed.  A live Writer has live = TRUE; file is
\* the generation whose data file active_data_file has open and pos is the
\* position of that BufWriter in it.
NoWriter ==
    [live |-> FALSE, active_generation |-> 0, file |-> 0, pos |-> 0,
     active_data_file_size |-> 0, max_data_file_size |-> 0, readers |-> {}]

\* No RustCask value is alive: the store is closed or the process is gone.
Down == DOMAIN handles = {}

Call(op, h, k, optv, res) == [op |-> op, h |-> h, key |-> k, value |-> optv, res |-> res]

Record(c) ==
    LET a == Append(hist, c) IN
    IF Len(a) > 3 THEN Tail(a) ELSE a

Last == hist[Len(hist)]

\* No store has been opened and the directory holds no file.
Empty ==
    /\ files = [g \in {} |-> <<>>]
    /\ dir = {}
    /\ keydir = KeyDir_new_empty
    /\ keydirPoisoned = FALSE
    /\ handles = NoHandles
    /\ bufWriters = <<>>
    /\ writer = NoWriter
    /\ hist = <<>>
    /\ nops = 0
    /\ th = IdleThreads
    /\ extra = {}
    /\ io = NoIo

Init ==
    /\ Empty
    /\ path = "dir"

\* As Init, the path being a directory, a regular file or nothing.
InitAnyPath ==
    /\ Empty
    /\ path \in PathKinds

\* ------------------------------------------------------------------ RustCask (src/lib.rs)

\* RustCaskBuilder::open on the engine directory, in a process that holds
\* no handle.  The active data file is opened with read, write and create:
\* not append, not truncate, so the BufWriter starts at file position 0.
\* active_data_file_size starts at 0.
OpenDir(max) ==
    LET listed      == { n \in extra : is_data_file(n) }
        generations == dir \cup { parse_generation_number(n).gen : n \in listed }
        active      == IF generations = {} THEN 0 ELSE HighestGen(generations)
        fs          == IF active \in dir THEN files
                       ELSE [g \in DOMAIN files \cup {active} |->
                                 IF g = active THEN <<>> ELSE files[g]]
        d           == dir \cup {active}
        none(r)     == /\ keydir' = KeyDir_new_empty
                       /\ handles' = NoHandles
                       /\ bufWriters' = <<>>
                       /\ hist' = Record(Call("open", 1, <<>>, None, r))
    IN  /\ keydirPoisoned' = FALSE
        /\ IF ~is_dir(path)
             THEN none(BadDirectory) /\ UNCHANGED << files, dir >>
           ELSE IF path # "dir"
             THEN \* fs::read_dir fails: OpenErrorKind::Io
                  none(Err) /\ UNCHANGED << files, dir >>
           ELSE IF \E n \in listed : ~parse_generation_number(n).ok
             THEN \* .expect("Failed to parse generation from file name")
                  none(Panic) /\ UNCHANGED << files, dir >>
           ELSE /\ files' = fs
                /\ dir' = d
                /\ IF (\E g \in generations : g \notin d) \/ BuildPanics(generations, fs)
                     THEN \* File::open(..).expect(..) of a listed generation
                          \* without <gen>.rustcask.data, or a malformed record
                          none(Panic)
                     ELSE /\ keydir' = build_keydir(generations, fs)
                          /\ bufWriters' = << [gen |-> active, pos |-> 0, poisoned |-> FALSE, unflushed |-> <<>>] >>
                          /\ handles' = [h \in {1} |->
                                [active_generation |-> active,
                                 active_data_file_writer |-> 1,
                                 data_file_readers |-> d,
                                 max_data_file_size |-> max,
                                 active_data_file_size |-> 0]]
                          /\ hist' = Record(Call("open", 1, <<>>, None, Ok(None)))

Open(max) ==
    /\ Down
    /\ nops < MaxOps
    /\ nops' = nops + 1
    /\ UNCHANGED << writer, th, extra, path, io >>
    /\ OpenDir(max)

\* drop(store) of every handle followed by open on the same directory.
Reopen(max) ==
    /\ ~Down
    /\ nops < MaxOps
    /\ nops' = nops + 1
    /\ UNCHANGED << writer, th, extra, path, io >>
    /\ OpenDir(max)

\* #[derive(Clone)] on RustCask: the Arcs are shared, every other field is
\* copied into the clone.
Clone(src, dst) ==
    /\ src \in DOMAIN handles
    /\ dst \notin DOMAIN handles
    /\ nops < MaxOps
    /\ nops' = nops + 1
    /\ UNCHANGED << writer, th, extra, path, io >>
    /\ handles' = [h \in DOMAIN handles \cup {dst} |->
                      IF h = dst THEN handles[src] ELSE handles[h]]
    /\ hist' = Record(Call("clone", dst, <<>>, None, Ok(None)))
    /\ UNCHANGED << files, dir, keydir, keydirPoisoned, bufWriters >>

\* The thread that owns handle h unwinds from a panic: h is dropped.
Without(h) == [x \in DOMAIN handles \ {h} |-> handles[x]]

\* The process is aborted: nothing of its memory is left.
ProcessGone ==
    /\ handles' = NoHandles
    /\ bufWriters' = <<>>
    /\ keydir' = KeyDir_new_empty
    /\ keydirPoisoned' = FALSE

\* RustCask::rotate_active_data_file applied to the fields hd of a handle:
\* [hd, bw, fs, d] after it.
rotate_active_data_file(hd, bw, fs, d) ==
    LET gen == hd.active_generation + 1 IN
    [ hd |-> [hd EXCEPT !.active_generation = gen,
                        !.active_data_file_writer = Len(bw) + 1,
                        !.data_file_readers = @ \cup {gen},
                        !.active_data_file_size = 0],
      bw |-> Append(bw, [gen |-> gen, pos |-> 0, poisoned |-> FALSE, unflushed |-> <<>>]),
      fs |-> IF gen \in d THEN fs
             ELSE [g \in DOMAIN fs \cup {gen} |-> IF g = gen THEN <<>> ELSE fs[g]],
      d  |-> d \cup {gen} ]

\* The thread owning h panics, leaving bw, kd and kp behind for the other
\* handles; with no other handle the process ends.
PanicOf(h, bw, kd, kp) ==
    IF DOMAIN handles = {h}
      THEN ProcessGone
      ELSE /\ handles' = Without(h)
           /\ bufWriters' = bw
           /\ keydir' = kd
           /\ keydirPoisoned' = kp

Poison(bw, i) == [bw EXCEPT ![i].poisoned = TRUE]

\* The file of BufWriter w once the bytes that an earlier, failed flush left
\* in its buffer have reached it.  pos counts the buffered bytes, as
\* stream_position does, which flushes the buffer before it asks the file.
Flushed(fs, w) ==
    [fs EXCEPT ![w.gen] = WriteAt(@, w.pos - Len(w.unflushed), w.unflushed)]

\* RustCask::set
RustCask_set(h, k, v) ==
    LET hd      == handles[h]
        wi      == hd.active_data_file_writer
        w       == bufWriters[wi]
        encoded == serialize(LogFileEntry(k, Some(v)))
        fs1     == [Flushed(files, w) EXCEPT ![w.gen] = WriteAt(@, w.pos, encoded)]
        bw1     == [bufWriters EXCEPT ![wi].pos = @ + Len(encoded),
                                      ![wi].unflushed = <<>>]
        hd1     == [hd EXCEPT !.active_data_file_size = @ + Len(encoded)]
        kd1     == KeyDir_set(keydir, k, hd.active_generation,
                              LogIndex(w.pos, Len(encoded)))
        rot     == rotate_active_data_file(hd1, bw1, fs1, dir)
        call(r) == Record(Call("set", h, k, Some(v), r))
    IN  IF w.poisoned
          THEN \* lock().expect(..) on the poisoned writer mutex
               /\ PanicOf(h, bufWriters, keydir, keydirPoisoned)
               /\ hist' = call(Panic)
               /\ UNCHANGED << files, dir >>
        ELSE IF keydirPoisoned
          THEN \* the record is written; keydir.write().expect(..) panics
               \* with the writer guard held
               /\ files' = fs1
               /\ PanicOf(h, Poison(bw1, wi), keydir, keydirPoisoned)
               /\ hist' = call(Panic)
               /\ UNCHANGED dir
        ELSE IF hd1.active_data_file_size >= hd1.max_data_file_size
          THEN /\ files' = rot.fs
               /\ dir' = rot.d
               /\ bufWriters' = rot.bw
               /\ handles' = [handles EXCEPT ![h] = rot.hd]
               /\ keydir' = kd1
               /\ hist' = call(Ok(None))
               /\ UNCHANGED keydirPoisoned
          ELSE /\ files' = fs1
               /\ bufWriters' = bw1
               /\ handles' = [handles EXCEPT ![h] = hd1]
               /\ keydir' = kd1
               /\ hist' = call(Ok(None))
               /\ UNCHANGED << dir, keydirPoisoned >>

\* A call of RustCask::set from its first statement to its return.
Set(h, k, v) ==
    /\ h \in DOMAIN handles
    /\ nops < MaxOps
    /\ nops' = nops + 1
    /\ UNCHANGED << writer, th, extra, path, io >>
    /\ RustCask_set(h, k, v)

\* What get returns for key k through handle fields hd, given the keydir
\* and the files: the keydir lookup, the lookup of the reader of the
\* entry's generation in the handle's own data_file_readers, then
\* read_entry.
get(hd, kd, fs, k) ==
    IF k \notin DOMAIN kd THEN Ok(None)
    ELSE IF kd[k].data_file_gen \notin hd.data_file_readers THEN Panic
    ELSE read_entry(fs, kd[k], k)

\* RustCask::get
Get(h, k) ==
    /\ h \in DOMAIN handles
    /\ nops < MaxOps
    /\ nops' = nops + 1
    /\ UNCHANGED << writer, th, extra, path, io >>
    /\ LET r == IF keydirPoisoned THEN Panic
                ELSE get(handles[h], keydir, files, k)
       IN  /\ hist' = Record(Call("get", h, k, None, r))
           /\ IF r.kind = "abort" THEN ProcessGone
              ELSE IF r.kind = "panic"
                \* a panic under the keydir read guard does not poison it
                THEN PanicOf(h, bufWriters, keydir, keydirPoisoned)
              ELSE UNCHANGED << handles, bufWriters, keydir, keydirPoisoned >>
    /\ UNCHANGED << files, dir >>

\* RustCask::remove: the tombstone is written and flushed, the key is
\* removed from the keydir, and the removed entry's record is read back.
\* active_data_file_size is not touched and the file is not rotated.
RustCask_remove(h, k) ==
    LET hd      == handles[h]
        wi      == hd.active_data_file_writer
        w       == bufWriters[wi]
        encoded == serialize(create_tombstone_entry(k))
        fs1     == [Flushed(files, w) EXCEPT ![w.gen] = WriteAt(@, w.pos, encoded)]
        bw1     == [bufWriters EXCEPT ![wi].pos = @ + Len(encoded),
                                      ![wi].unflushed = <<>>]
        kd1     == KeyDir_remove(keydir, k)
        r       == IF k \notin DOMAIN keydir THEN Ok(None)
                   ELSE IF keydir[k].data_file_gen \notin hd.data_file_readers
                     THEN Panic
                   ELSE read_entry(fs1, keydir[k], k)
        call(x) == Record(Call("remove", h, k, None, x))
    IN  IF w.poisoned
          THEN /\ PanicOf(h, bufWriters, keydir, keydirPoisoned)
               /\ hist' = call(Panic)
               /\ UNCHANGED << files, dir >>
        ELSE IF keydirPoisoned
          THEN /\ files' = fs1
               /\ PanicOf(h, Poison(bw1, wi), keydir, keydirPoisoned)
               /\ hist' = call(Panic)
               /\ UNCHANGED dir
        ELSE /\ files' = fs1
             /\ hist' = call(r)
             /\ UNCHANGED dir
             /\ IF r.kind = "abort" THEN ProcessGone
                ELSE IF r.kind = "panic"
                  \* the writer guard and the keydir write guard are held
                  THEN PanicOf(h, Poison(bw1, wi), kd1, TRUE)
                ELSE /\ bufWriters' = bw1
                     /\ keydir' = kd1
                     /\ UNCHANGED << handles, keydirPoisoned >>

\* A call of RustCask::remove from its first statement to its return.
Remove(h, k) ==
    /\ h \in DOMAIN handles
    /\ nops < MaxOps
    /\ nops' = nops + 1
    /\ UNCHANGED << writer, th, extra, path, io >>
    /\ RustCask_remove(h, k)

Next ==
    \/ \E m \in MaxSizes : Open(m)
    \/ \E m \in MaxSizes : Reopen(m)
    \/ Clone(1, 2)
    \/ \E h \in HandleIds, k \in Keys, v \in Values : Set(h, k, v)
    \/ \E h \in HandleIds, k \in Keys : Get(h, k)
    \/ \E h \in HandleIds, k \in Keys : Remove(h, k)

Spec == Init /\ [][Next]_vars

\* The state after RustCaskBuilder::open with max_data_file_size max on an
\* empty directory followed by clone(): two handles with equal fields on
\* one writer and one keydir.
Cloned(max) ==
    /\ files = [g \in {0} |-> <<>>]
    /\ dir = {0}
    /\ keydir = KeyDir_new_empty
    /\ keydirPoisoned = FALSE
    /\ bufWriters = << [gen |-> 0, pos |-> 0, poisoned |-> FALSE, unflushed |-> <<>>] >>
    /\ handles = [h \in HandleIds |->
                     [active_generation |-> 0,
                      active_data_file_writer |-> 1,
                      data_file_readers |-> {0},
                      max_data_file_size |-> max,
                      active_data_file_size |-> 0]]
    /\ writer = NoWriter
    /\ hist = <<>>
    /\ nops = 0
    /\ th = IdleThreads
    /\ extra = {}
    /\ path = "dir"
    /\ io = NoIo

InitCloned == \E m \in MaxSizes : Cloned(m)

\* The key that the two handles work on.
SharedKey == CHOOSE k \in Keys : TRUE

\* The calls of two handles of one process on one key, from the open and
\* the clone on.
NextCloned ==
    \/ \E h \in HandleIds, v \in Values : Set(h, SharedKey, v)
    \/ \E h \in HandleIds : Get(h, SharedKey)
    \/ \E h \in HandleIds : Remove(h, SharedKey)

SpecCloned == InitCloned /\ [][NextCloned]_vars

\* ------------------------------------------------------------------ RustCask on threads

\* The mutex of BufWriter i is locked: some thread has its guard.
MutexHeld(i) == \E t \in HandleIds : th[t].holds = i

\* A keydir.write() guard is alive: remove keeps the one it took through its
\* read-back, merge keeps its own from its first statements to its return.
KeydirWriteHeld == \E t \in HandleIds : th[t].pc \in {"remove_read", "merging"}

\* A keydir.read() guard is alive: get keeps it until it returns.
KeydirReadHeld == \E t \in HandleIds : th[t].pc = "get_read"

\* The calls that have started and not returned.
InFlight == Cardinality({ t \in HandleIds : th[t].pc # "idle" })

\* Thread t may start a call through its handle.
CanCall(t) ==
    /\ t \in DOMAIN handles
    /\ th[t].pc = "idle"
    /\ nops + InFlight < MaxOps

\* The call of thread t returns r (or unwinds with it).
Returns(t, op, r) ==
    /\ hist' = Record(Call(op, t, th[t].key, th[t].value, r))
    /\ nops' = nops + 1

\* Thread t panics with the writer mutex poisoned or not: t and its handle
\* are gone, the other threads go on.
ThreadPanics(t, bw, kd, kp) ==
    /\ PanicOf(t, bw, kd, kp)
    /\ th' = IF DOMAIN handles = {t} THEN IdleThreads ELSE [th EXCEPT ![t] = Idle]

\* set, first statement after the encoding: active_data_file_writer.lock()
TSetLock(t, k, v) ==
    /\ CanCall(t)
    /\ ~MutexHeld(handles[t].active_data_file_writer)
    /\ LET wi == handles[t].active_data_file_writer IN
       IF bufWriters[wi].poisoned
         THEN /\ ThreadPanics(t, bufWriters, keydir, keydirPoisoned)
              /\ hist' = Record(Call("set", t, k, Some(v), Panic))
              /\ nops' = nops + 1
         ELSE /\ th' = [th EXCEPT ![t] = [Idle EXCEPT !.pc = "set_write", !.key = k,
                                                      !.value = Some(v), !.holds = wi]]
              /\ UNCHANGED << handles, bufWriters, keydir, keydirPoisoned, hist, nops >>
    /\ UNCHANGED << files, dir, writer, extra, path, io >>

\* set: stream_position, write_all, flush, active_data_file_size += len
TSetWrite(t) ==
    /\ th[t].pc = "set_write"
    /\ LET wi      == th[t].holds
           w       == bufWriters[wi]
           encoded == serialize(LogFileEntry(th[t].key, th[t].value))
       IN  /\ files' = [files EXCEPT ![w.gen] = WriteAt(@, w.pos, encoded)]
           /\ bufWriters' = [bufWriters EXCEPT ![wi].pos = @ + Len(encoded)]
           /\ handles' = [handles EXCEPT ![t].active_data_file_size = @ + Len(encoded)]
           /\ th' = [th EXCEPT ![t].pc = "set_publish", ![t].off = w.pos]
    /\ UNCHANGED << dir, keydir, keydirPoisoned, writer, hist, nops, extra, path, io >>

\* set: keydir.write().set(key, self.active_generation, index); then either
\* drop(writer) before the rotation, or the return, which drops the guard.
TSetPublish(t) ==
    /\ th[t].pc = "set_publish"
    /\ ~KeydirWriteHeld /\ ~KeydirReadHeld
    /\ LET hd      == handles[t]
           encoded == serialize(LogFileEntry(th[t].key, th[t].value))
       IN  IF keydirPoisoned
             THEN /\ ThreadPanics(t, Poison(bufWriters, th[t].holds), keydir, keydirPoisoned)
                  /\ Returns(t, "set", Panic)
           ELSE /\ keydir' = KeyDir_set(keydir, th[t].key, hd.active_generation,
                                        LogIndex(th[t].off, Len(encoded)))
                /\ UNCHANGED << handles, bufWriters, keydirPoisoned >>
                /\ IF hd.active_data_file_size >= hd.max_data_file_size
                     THEN /\ th' = [th EXCEPT ![t].pc = "set_rotate", ![t].holds = 0]
                          /\ UNCHANGED << hist, nops >>
                     ELSE /\ th' = [th EXCEPT ![t] = Idle]
                          /\ Returns(t, "set", Ok(None))
    /\ UNCHANGED << files, dir, writer, extra, path, io >>

\* set: self.rotate_active_data_file(), the writer guard dropped; return
TSetRotate(t) ==
    /\ th[t].pc = "set_rotate"
    /\ LET rot == rotate_active_data_file(handles[t], bufWriters, files, dir) IN
       /\ files' = rot.fs
       /\ dir' = rot.d
       /\ bufWriters' = rot.bw
       /\ handles' = [handles EXCEPT ![t] = rot.hd]
    /\ th' = [th EXCEPT ![t] = Idle]
    /\ Returns(t, "set", Ok(None))
    /\ UNCHANGED << keydir, keydirPoisoned, writer, extra, path, io >>

\* get, first statement: keydir.read(); the guard lives until get returns
TGetLock(t, k) ==
    /\ CanCall(t)
    /\ ~KeydirWriteHeld
    /\ IF keydirPoisoned
         THEN /\ ThreadPanics(t, bufWriters, keydir, keydirPoisoned)
              /\ hist' = Record(Call("get", t, k, None, Panic))
              /\ nops' = nops + 1
         ELSE /\ th' = [th EXCEPT ![t] = [Idle EXCEPT !.pc = "get_read", !.key = k]]
              /\ UNCHANGED << handles, bufWriters, keydir, keydirPoisoned, hist, nops >>
    /\ UNCHANGED << files, dir, writer, extra, path, io >>

\* get: the keydir lookup, the reader lookup, seek, deserialize, return
TGetRead(t) ==
    /\ th[t].pc = "get_read"
    /\ LET r == get(handles[t], keydir, files, th[t].key) IN
       /\ Returns(t, "get", r)
       /\ IF r.kind = "abort" THEN ProcessGone /\ th' = IdleThreads
          ELSE IF r.kind = "panic"
            THEN ThreadPanics(t, bufWriters, keydir, keydirPoisoned)
          ELSE /\ th' = [th EXCEPT ![t] = Idle]
               /\ UNCHANGED << handles, bufWriters, keydir, keydirPoisoned >>
    /\ UNCHANGED << files, dir, writer, extra, path, io >>

\* remove, first statement after the encoding: active_data_file_writer.lock()
TRemoveLock(t, k) ==
    /\ CanCall(t)
    /\ ~MutexHeld(handles[t].active_data_file_writer)
    /\ LET wi == handles[t].active_data_file_writer IN
       IF bufWriters[wi].poisoned
         THEN /\ ThreadPanics(t, bufWriters, keydir, keydirPoisoned)
              /\ hist' = Record(Call("remove", t, k, None, Panic))
              /\ nops' = nops + 1
         ELSE /\ th' = [th EXCEPT ![t] = [Idle EXCEPT !.pc = "remove_write", !.key = k,
                                                      !.holds = wi]]
              /\ UNCHANGED << handles, bufWriters, keydir, keydirPoisoned, hist, nops >>
    /\ UNCHANGED << files, dir, writer, extra, path, io >>

\* remove: write_all and flush of the tombstone
TRemoveWrite(t) ==
    /\ th[t].pc = "remove_write"
    /\ LET wi      == th[t].holds
           w       == bufWriters[wi]
           encoded == serialize(create_tombstone_entry(th[t].key))
       IN  /\ files' = [files EXCEPT ![w.gen] = WriteAt(@, w.pos, encoded)]
           /\ bufWriters' = [bufWriters EXCEPT ![wi].pos = @ + Len(encoded)]
           /\ th' = [th EXCEPT ![t].pc = "remove_publish", ![t].off = w.pos]
    /\ UNCHANGED << dir, keydir, keydirPoisoned, handles, writer, hist, nops, extra, path, io >>

\* remove: keydir.write().remove(key), the scrutinee of the match: its guard
\* lives to the end of the match
TRemovePublish(t) ==
    /\ th[t].pc = "remove_publish"
    /\ ~KeydirWriteHeld /\ ~KeydirReadHeld
    /\ IF keydirPoisoned
         THEN /\ ThreadPanics(t, Poison(bufWriters, th[t].holds), keydir, keydirPoisoned)
              /\ Returns(t, "remove", Panic)
       ELSE IF th[t].key \notin DOMAIN keydir
         THEN /\ th' = [th EXCEPT ![t] = Idle]
              /\ Returns(t, "remove", Ok(None))
              /\ UNCHANGED << handles, bufWriters, keydir, keydirPoisoned >>
       ELSE /\ keydir' = KeyDir_remove(keydir, th[t].key)
            /\ th' = [th EXCEPT ![t].pc = "remove_read", ![t].entry = keydir[th[t].key]]
            /\ UNCHANGED << handles, bufWriters, keydirPoisoned, hist, nops >>
    /\ UNCHANGED << files, dir, writer, extra, path, io >>

\* remove: the read-back of the removed entry's record, under both guards
TRemoveRead(t) ==
    /\ th[t].pc = "remove_read"
    /\ LET e == th[t].entry
           r == IF e.data_file_gen \notin handles[t].data_file_readers THEN Panic
                ELSE read_entry(files, e, th[t].key)
       IN  /\ Returns(t, "remove", r)
           /\ IF r.kind = "abort" THEN ProcessGone /\ th' = IdleThreads
              ELSE IF r.kind = "panic"
                THEN ThreadPanics(t, Poison(bufWriters, th[t].holds), keydir, TRUE)
              ELSE /\ th' = [th EXCEPT ![t] = Idle]
                   /\ UNCHANGED << handles, bufWriters, keydir, keydirPoisoned >>
    /\ UNCHANGED << files, dir, writer, extra, path, io >>

\* store.clone() by the thread of handle 1, between two of its calls
TClone ==
    /\ th[1].pc = "idle"
    /\ Clone(1, 2)

NextThreads ==
    \/ \E m \in MaxSizes : Open(m)
    \/ TClone
    \/ \E t \in HandleIds, k \in Keys, v \in Values : TSetLock(t, k, v)
    \/ \E t \in HandleIds : TSetWrite(t)
    \/ \E t \in HandleIds : TSetPublish(t)
    \/ \E t \in HandleIds : TSetRotate(t)
    \/ \E t \in HandleIds, k \in Keys : TGetLock(t, k)
    \/ \E t \in HandleIds : TGetRead(t)
    \/ \E t \in HandleIds, k \in Keys : TRemoveLock(t, k)
    \/ \E t \in HandleIds : TRemoveWrite(t)
    \/ \E t \in HandleIds : TRemovePublish(t)
    \/ \E t \in HandleIds : TRemoveRead(t)

SpecThreads == Init /\ [][NextThreads]_vars

\* RustCaskBuilder::open on an empty directory.
OpenFresh(max) == dir = {} /\ Open(max)

\* The handles of one process on a directory that was empty at open.
NextClones ==
    \/ \E m \in MaxSizes : OpenFresh(m)
    \/ TClone
    \/ \E t \in HandleIds, k \in Keys, v \in Values : TSetLock(t, k, v)
    \/ \E t \in HandleIds : TSetWrite(t)
    \/ \E t \in HandleIds : TSetPublish(t)
    \/ \E t \in HandleIds : TSetRotate(t)
    \/ \E t \in HandleIds, k \in Keys : TGetLock(t, k)
    \/ \E t \in HandleIds : TGetRead(t)
    \/ \E t \in HandleIds, k \in Keys : TRemoveLock(t, k)
    \/ \E t \in HandleIds : TRemoveWrite(t)
    \/ \E t \in HandleIds : TRemovePublish(t)
    \/ \E t \in HandleIds : TRemoveRead(t)

SpecClones == Init /\ [][NextClones]_vars

\* ------------------------------------------------------------------ Writer (src/writer.rs)

\* The process that owned the Writer is gone (abort or panic of its thread).
WriterGone ==
    /\ writer' = NoWriter
    /\ keydir' = KeyDir_new_empty
    /\ keydirPoisoned' = FALSE

\* A file created by OpenOptions::create(true) when the name is not in the
\* directory; an existing file is opened as it is.
Created(fs, d, gen) ==
    IF gen \in d THEN fs
    ELSE [g \in DOMAIN fs \cup {gen} |-> IF g = gen THEN <<>> ELSE fs[g]]

\* Writer::new taking the first generation of the sorted listing instead of
\* the last one.
Writer_new_first(max, fs, d, rd) ==
    LET active == IF d = {} THEN 0 ELSE CHOOSE g \in d : \A o \in d : g <= o
        fs1    == Created(fs, d, active)
    IN  [live |-> TRUE, active_generation |-> active, file |-> active, pos |-> 0,
         active_data_file_size |-> Len(fs1[active]),
         max_data_file_size |-> max, readers |-> rd]

\* Writer::new: the highest generation of the directory (0 when there is
\* none) becomes active, its file is opened with read, write and create,
\* and active_data_file_size is the length of that file.  The BufWriter
\* starts at file position 0.
Writer_new(max, fs, d, rd) ==
    LET active == IF d = {} THEN 0 ELSE HighestGen(d)
        fs1    == Created(fs, d, active)
    IN  [live |-> TRUE, active_generation |-> active, file |-> active, pos |-> 0,
         active_data_file_size |-> Len(fs1[active]),
         max_data_file_size |-> max, readers |-> rd]

\* KeyDir::new(dir), Readers::new(dir) and Writer::new on the directory.
WriterOpenDir(max) ==
    LET active == IF dir = {} THEN 0 ELSE HighestGen(dir) IN
    /\ keydirPoisoned' = FALSE
    /\ IF BuildPanics(dir, files)
         THEN /\ keydir' = KeyDir_new_empty
              /\ writer' = NoWriter
              /\ hist' = Record(Call("open", 0, <<>>, None, Panic))
              /\ UNCHANGED << files, dir >>
         ELSE /\ keydir' = build_keydir(dir, files)
              /\ writer' = Writer_new(max, files, dir, dir)
              /\ files' = Created(files, dir, active)
              /\ dir' = dir \cup {active}
              /\ hist' = Record(Call("open", 0, <<>>, None, Ok(None)))

WOpen(max) ==
    /\ ~writer.live
    /\ nops < MaxOps
    /\ nops' = nops + 1
    /\ UNCHANGED << handles, bufWriters, th, extra, path, io >>
    /\ WriterOpenDir(max)

\* The Writer, its keydir and its Readers are dropped and built again on
\* the same directory.
WReopen(max) ==
    /\ writer.live
    /\ nops < MaxOps
    /\ nops' = nops + 1
    /\ UNCHANGED << handles, bufWriters, th, extra, path, io >>
    /\ WriterOpenDir(max)

\* Writer::rotate_active_data_file: [w, fs, d] after it.
Writer_rotate_active_data_file(w, fs, d) ==
    LET gen == w.active_generation + 1 IN
    [ w  |-> [w EXCEPT !.active_generation = gen, !.file = gen, !.pos = 0,
                       !.active_data_file_size = 0],
      fs |-> Created(fs, d, gen),
      d  |-> d \cup {gen} ]

\* write_to_active_data_file reporting active_generation as it is when the
\* function returns, that is after a rotation.
write_to_active_data_file_reports_rotated(w, fs, d, encoded) ==
    LET fs1 == [fs EXCEPT ![w.file] = WriteAt(@, w.pos, encoded)]
        w1  == [w EXCEPT !.pos = @ + Len(encoded),
                         !.active_data_file_size = @ + Len(encoded)]
        rot == Writer_rotate_active_data_file(w1, fs1, d)
        out(ww, ff, dd) == [w |-> ww, fs |-> ff, d |-> dd,
                            index |-> LogIndex(w.pos, Len(encoded)),
                            gen |-> ww.active_generation]
    IN  IF w1.active_data_file_size >= w1.max_data_file_size
          THEN out(rot.w, rot.fs, rot.d)
          ELSE out(w1, fs1, d)

\* Writer::write_to_active_data_file: the bytes go to the open file at its
\* position, the size counter grows, the generation reported is
\* active_generation as it was before a rotation.
write_to_active_data_file(w, fs, d, encoded) ==
    LET file_offset == w.pos
        fs1 == [fs EXCEPT ![w.file] = WriteAt(@, w.pos, encoded)]
        w1  == [w EXCEPT !.pos = @ + Len(encoded),
                         !.active_data_file_size = @ + Len(encoded)]
        written_generation == w.active_generation
        rot == Writer_rotate_active_data_file(w1, fs1, d)
        out(ww, ff, dd) == [w |-> ww, fs |-> ff, d |-> dd,
                            index |-> LogIndex(file_offset, Len(encoded)),
                            gen |-> written_generation]
    IN  IF w1.active_data_file_size >= w1.max_data_file_size
          THEN out(rot.w, rot.fs, rot.d)
          ELSE out(w1, fs1, d)

\* Writer::set
Writer_set(k, v) ==
    LET wr == write_to_active_data_file(writer, files, dir,
                                       serialize(LogFileEntry(k, Some(v))))
    IN  /\ files' = wr.fs
        /\ dir' = wr.d
        /\ writer' = wr.w
        /\ keydir' = KeyDir_set(keydir, k, wr.gen, wr.index)
        /\ hist' = Record(Call("set", 0, k, Some(v), Ok(None)))
        /\ UNCHANGED keydirPoisoned

\* A call of Writer::set from its first statement to its return.
WSet(k, v) ==
    /\ writer.live
    /\ nops < MaxOps
    /\ nops' = nops + 1
    /\ UNCHANGED << handles, bufWriters, th, extra, path, io >>
    /\ Writer_set(k, v)

\* Readers::get_data_file_reader(gen): the cached reader, or a reader on the
\* file opened now; File::open(..).expect(..) panics when the directory has
\* no such file.
ReaderFound(rd, d, gen) == gen \in rd \/ gen \in d

\* Writer::remove
Writer_remove(k) ==
    LET wr == write_to_active_data_file(writer, files, dir,
                                        serialize(create_tombstone_entry(k)))
        r  == IF k \notin DOMAIN keydir THEN Ok(None)
              ELSE IF ~ReaderFound(wr.w.readers, wr.d, keydir[k].data_file_gen)
                THEN Panic
              ELSE read_entry(wr.fs, keydir[k], k)
    IN  /\ files' = wr.fs
        /\ dir' = wr.d
        /\ hist' = Record(Call("remove", 0, k, None, r))
        /\ IF r.kind \in {"abort", "panic"}
             THEN WriterGone
             ELSE /\ writer' = IF k \in DOMAIN keydir
                                 THEN [wr.w EXCEPT !.readers =
                                          @ \cup {keydir[k].data_file_gen}]
                                 ELSE wr.w
                  /\ keydir' = KeyDir_remove(keydir, k)
                  /\ UNCHANGED keydirPoisoned

\* A call of Writer::remove from its first statement to its return.
WRemove(k) ==
    /\ writer.live
    /\ nops < MaxOps
    /\ nops' = nops + 1
    /\ UNCHANGED << handles, bufWriters, th, extra, path, io >>
    /\ Writer_remove(k)

Min(a, b) == IF a <= b THEN a ELSE b

\* The orders in which `for (key, val) in keydir` can visit the entries of
\* the HashMap.
IterationOrders(kd) ==
    { o \in [1..Cardinality(DOMAIN kd) -> DOMAIN kd] :
        \A i, j \in DOMAIN o : i # j => o[i] # o[j] }

\* Writer::rotate_merge_data_file on the merge state st.
rotate_merge_data_file(st) ==
    [st EXCEPT !.gen = @ + 1,
               !.fs = Created(st.fs, st.d, st.gen + 1),
               !.d = @ \cup {st.gen + 1},
               !.size = 0,
               !.off = 0]

\* The loop of Writer::merge over the keydir entries in the given order.
\* st holds active_merge_gen (gen), merge_offset (off), file_size (size),
\* new_keydir (kd), the files, the directory, the readers and the outcome
\* so far.
RECURSIVE merge_loop(_, _, _, _)
merge_loop(order, old, max, st) ==
    IF order = <<>> \/ st.res.kind # "ok" THEN st
    ELSE
      LET key == Head(order)
          val == old[key]
      IN
      IF ~ReaderFound(st.rd, st.d, val.data_file_gen)
        THEN [st EXCEPT !.res = Panic]
      ELSE
        LET s == BufReaderWithPos_seek(val.index.offset, 0) IN
        IF ~s.returns THEN [st EXCEPT !.res = Abort]
        ELSE
          LET src        == st.fs[val.data_file_gen]
              bytes_read == Min(val.index.len, Max(0, Len(src) - s.offset))
              buffer     == SubSeq(src, s.offset + 1, s.offset + bytes_read)
          IN
          IF bytes_read # val.index.len
            THEN [st EXCEPT !.res = Panic]      \* assert_eq!(bytes_read, len)
          ELSE
            LET st1 == [st EXCEPT
                          !.fs = [st.fs EXCEPT ![st.gen] = WriteAt(@, st.off, buffer)],
                          !.kd = KeyDir_set(st.kd, key, st.gen,
                                            LogIndex(st.off, bytes_read)),
                          !.off = @ + bytes_read,
                          !.size = @ + bytes_read,
                          !.rd = @ \cup {val.data_file_gen}]
            IN  merge_loop(Tail(order), old, max,
                           IF st1.size > max THEN rotate_merge_data_file(st1) ELSE st1)

\* delete_generations with the generations listed when it runs, the merge
\* files among them, instead of those listed before the merge.
delete_generations_lists_late(d, previous_generations) == d \ (d \cup previous_generations)

\* delete_generations with the file the Writer had open left in place.
delete_generations_keeps_active(d, previous_generations) ==
    d \ (previous_generations \ {HighestGen(previous_generations)})

\* Writer::delete_generations: the directory after fs::remove_file of each.
delete_generations(d, previous_generations) == d \ previous_generations

\* Writer::merge, the keydir being visited in some order.  On success
\* active_generation becomes the last merge generation, the keydir is
\* replaced by new_keydir and the files listed before the merge are
\* deleted; active_data_file and active_data_file_size stay as they are.
Writer_merge ==
    \E order \in IterationOrders(keydir) :
       LET initial_merge_gen    == writer.active_generation + 1
           previous_generations == dir
           st0 == [gen |-> initial_merge_gen, off |-> 0, size |-> 0,
                   kd |-> KeyDir_new_empty,
                   fs |-> Created(files, dir, initial_merge_gen),
                   d |-> dir \cup {initial_merge_gen},
                   rd |-> writer.readers, res |-> Ok(None)]
           st  == merge_loop(order, keydir, writer.max_data_file_size, st0)
       IN  /\ files' = st.fs
           /\ hist' = Record(Call("merge", 0, <<>>, None, st.res))
           /\ IF st.res.kind = "ok"
                THEN /\ writer' = [writer EXCEPT !.active_generation = st.gen,
                                                 !.readers = st.rd]
                     /\ keydir' = st.kd
                     /\ dir' = delete_generations(st.d, previous_generations)
                     /\ UNCHANGED keydirPoisoned
                ELSE /\ dir' = st.d
                     /\ WriterGone

\* A call of Writer::merge from its first statement to its return.
WMerge ==
    /\ writer.live
    /\ nops < MaxOps
    /\ nops' = nops + 1
    /\ UNCHANGED << handles, bufWriters, th, extra, path, io >>
    /\ Writer_merge

\* MergeError { kind: MergeErrorKind::Io(..), merge_generation }
MergeError(merge_generation) ==
    [kind |-> "err", value |-> None, merge_generation |-> merge_generation]

\* Writer::delete_generations when fs::remove_file fails on one of the
\* files: those removed before it, deleted, are gone, the others stay.
delete_generations_failing(d, previous_generations, deleted) == d \ deleted

\* Writer::merge during which an I/O call returns an error.  Every I/O call
\* inside the loop follows the seek of its iteration, the flush after the
\* loop finds an empty or already written buffer, and the open of the merge
\* file is unwrapped, so the error that merge returns is the one of
\* delete_generations: by then active_generation and the keydir have been
\* replaced.
WMergeIoError ==
    /\ writer.live
    /\ nops < MaxOps
    /\ nops' = nops + 1
    /\ UNCHANGED << handles, bufWriters, th, extra, path, io >>
    /\ \E order \in IterationOrders(keydir) :
       LET initial_merge_gen    == writer.active_generation + 1
           previous_generations == dir
           st0 == [gen |-> initial_merge_gen, off |-> 0, size |-> 0,
                   kd |-> KeyDir_new_empty,
                   fs |-> Created(files, dir, initial_merge_gen),
                   d |-> dir \cup {initial_merge_gen},
                   rd |-> writer.readers, res |-> Ok(None)]
           st  == merge_loop(order, keydir, writer.max_data_file_size, st0)
       IN  /\ st.res.kind = "ok"
           /\ \E deleted \in SUBSET previous_generations :
                /\ deleted # previous_generations
                /\ dir' = delete_generations_failing(st.d, previous_generations, deleted)
           /\ files' = st.fs
           /\ writer' = [writer EXCEPT !.active_generation = st.gen,
                                        !.readers = st.rd]
           /\ keydir' = st.kd
           /\ hist' = Record(Call("merge", 0, <<>>, None, MergeError(initial_merge_gen)))
           /\ UNCHANGED keydirPoisoned

\* The process stopped (killed, power lost) inside a call.
Crashed == Res("crash", None)

\* Writer::merge during which the process stops: after n iterations of the
\* copy loop, or, the loop done and the keydir swapped, after the
\* remove_file calls of delete_generations for the files of deleted.  The
\* order in which delete_generations visits previous_generations is the
\* order of the directory listing, which is not sorted.
WMergeCrash ==
    /\ writer.live
    /\ nops < MaxOps
    /\ nops' = nops + 1
    /\ UNCHANGED << handles, bufWriters, th, extra, path, io >>
    /\ \E order \in IterationOrders(keydir) :
       \E n \in 0..Len(order) :
       \E deleted \in SUBSET dir :
       LET initial_merge_gen    == writer.active_generation + 1
           previous_generations == dir
           st0 == [gen |-> initial_merge_gen, off |-> 0, size |-> 0,
                   kd |-> KeyDir_new_empty,
                   fs |-> Created(files, dir, initial_merge_gen),
                   d |-> dir \cup {initial_merge_gen},
                   rd |-> writer.readers, res |-> Ok(None)]
           st  == merge_loop(SubSeq(order, 1, n), keydir, writer.max_data_file_size, st0)
       IN  /\ st.res.kind = "ok"
           /\ deleted # {} => n = Len(order)
           /\ files' = st.fs
           /\ dir' = delete_generations_failing(st.d, previous_generations, deleted)
           /\ hist' = Record(Call("merge", 0, <<>>, None, Crashed))
           /\ WriterGone

NextWriter ==
    \/ \E m \in MaxSizes : WOpen(m)
    \/ \E m \in MaxSizes : WReopen(m)
    \/ \E k \in Keys, v \in Values : WSet(k, v)
    \/ \E k \in Keys : WRemove(k)
    \/ WMerge

SpecWriter == Init /\ [][NextWriter]_vars

\* The Writer in a process that can stop inside merge.
NextMergeCrash ==
    \/ \E m \in MaxSizes : WOpen(m)
    \/ \E m \in MaxSizes : WReopen(m)
    \/ \E k \in Keys, v \in Values : WSet(k, v)
    \/ \E k \in Keys : WRemove(k)
    \/ WMerge
    \/ WMergeCrash

SpecMergeCrash == Init /\ [][NextMergeCrash]_vars

\* The Writer on a file system whose remove_file can fail.
NextMergeIo ==
    \/ \E m \in MaxSizes : WOpen(m)
    \/ \E m \in MaxSizes : WReopen(m)
    \/ \E k \in Keys, v \in Values : WSet(k, v)
    \/ \E k \in Keys : WRemove(k)
    \/ WMerge
    \/ WMergeIoError

SpecMergeIo == Init /\ [][NextMergeIo]_vars

\* Writer::write_to_active_data_file when one of its I/O calls returns an
\* io::Error: stream_position (nothing written), write_all (a part of the
\* record written) or flush and sync_all (the record written).  The function
\* returns the error with `?`; active_data_file_size is not updated.
write_to_active_data_file_failing(w, fs, encoded, n) ==
    [fs EXCEPT ![w.file] = WriteAt(@, w.pos, SubSeq(encoded, 1, n))]

\* The numbers of bytes of encoded that reached the file when the I/O call
\* failed.
WrittenOnFailure(encoded) == {0, Len(encoded) \div 2, Len(encoded)}

\* Writer::set during which an I/O call of write_to_active_data_file
\* fails: line 150 unwraps the io::Error.
WSetIoError(k, v) ==
    /\ writer.live
    /\ nops < MaxOps
    /\ nops' = nops + 1
    /\ UNCHANGED << handles, bufWriters, th, extra, path, io, dir >>
    /\ \E n \in WrittenOnFailure(serialize(LogFileEntry(k, Some(v)))) :
         files' = write_to_active_data_file_failing(
                      writer, files, serialize(LogFileEntry(k, Some(v))), n)
    /\ hist' = Record(Call("set", 0, k, Some(v), Panic))
    /\ WriterGone

\* Writer::remove during which an I/O call of write_to_active_data_file
\* fails: line 384 unwraps the io::Error.
WRemoveIoError(k) ==
    /\ writer.live
    /\ nops < MaxOps
    /\ nops' = nops + 1
    /\ UNCHANGED << handles, bufWriters, th, extra, path, io, dir >>
    /\ \E n \in WrittenOnFailure(serialize(create_tombstone_entry(k))) :
         files' = write_to_active_data_file_failing(
                      writer, files, serialize(create_tombstone_entry(k)), n)
    /\ hist' = Record(Call("remove", 0, k, None, Panic))
    /\ WriterGone

\* Writer::merge when the directory listing (line 270) or the open of the
\* merge file (line 278) fails: both results are unwrapped.  The merge file
\* may or may not have been created by then.
WMergeOpenError ==
    /\ writer.live
    /\ nops < MaxOps
    /\ nops' = nops + 1
    /\ UNCHANGED << handles, bufWriters, th, extra, path, io >>
    /\ \E created \in BOOLEAN :
         /\ files' = IF created THEN Created(files, dir, writer.active_generation + 1)
                                ELSE files
         /\ dir' = IF created THEN dir \cup {writer.active_generation + 1} ELSE dir
    /\ hist' = Record(Call("merge", 0, <<>>, None, Panic))
    /\ WriterGone

\* The Writer on a file system whose calls can fail.
NextIo ==
    \/ \E m \in MaxSizes : WOpen(m)
    \/ \E m \in MaxSizes : WReopen(m)
    \/ \E k \in Keys, v \in Values : WSet(k, v)
    \/ \E k \in Keys : WRemove(k)
    \/ WMerge
    \/ WMergeIoError
    \/ \E k \in Keys, v \in Values : WSetIoError(k, v)
    \/ \E k \in Keys : WRemoveIoError(k)
    \/ WMergeOpenError

SpecIo == Init /\ [][NextIo]_vars

\* ------------------------------------------------------------------ Writer, one I/O call at a time

\* Writer::new with sync_mode sync, in a process that has no Writer.  The
\* BufWriter of the active data file starts empty; what sync_all made
\* durable in earlier runs stays so.
WOpenSync(max, sync) ==
    /\ ~writer.live
    /\ Down
    /\ nops < MaxOps
    /\ nops' = nops + 1
    /\ UNCHANGED << handles, bufWriters, th, extra, path >>
    /\ WriterOpenDir(max)
    /\ io' = [io EXCEPT !.sync_mode = sync, !.buffer = <<>>]

\* The Writer can start a call: &mut self, so one call at a time.
WriterIdle ==
    /\ writer.live
    /\ th[1].pc = "idle"
    /\ nops < MaxOps

\* write_to_active_data_file, lines 181-182: stream_position, then
\* write_all, which leaves the record in the buffer of the BufWriter (a
\* record is shorter than the buffer).  optv is the value of a set, None
\* for the tombstone of a remove.
WriteAll(k, optv) ==
    /\ WriterIdle
    /\ th' = [th EXCEPT ![1] = [Idle EXCEPT !.pc = "flush", !.key = k,
                                            !.value = optv, !.off = writer.pos]]
    /\ io' = [io EXCEPT !.buffer = @ \o serialize(LogFileEntry(k, optv))]
    /\ UNCHANGED << files, dir, keydir, keydirPoisoned, handles, bufWriters, writer,
                    hist, nops, extra, path >>

\* The step that follows flush: sync_all when sync_mode is set (lines
\* 184-187), the rest of the call otherwise.
after_flush_never_syncs(sync_mode) == "written"

after_flush(sync_mode) == IF sync_mode THEN "sync" ELSE "written"

\* write_to_active_data_file, line 183: flush writes the buffer at the
\* position of the file and empties it.
Flush ==
    /\ writer.live
    /\ th[1].pc = "flush"
    /\ files' = [files EXCEPT ![writer.file] = WriteAt(@, th[1].off, io.buffer)]
    /\ io' = [io EXCEPT !.buffer = <<>>]
    /\ th' = [th EXCEPT ![1].pc = after_flush(io.sync_mode)]
    /\ UNCHANGED << dir, keydir, keydirPoisoned, handles, bufWriters, writer,
                    hist, nops, extra, path >>

\* write_to_active_data_file, line 186: sync_all makes the bytes of the
\* active data file durable.
SyncAll ==
    /\ writer.live
    /\ th[1].pc = "sync"
    /\ io' = [io EXCEPT !.durable =
                 [g \in DOMAIN @ \cup {writer.file} |->
                     IF g = writer.file THEN Len(files[g]) ELSE @[g]]]
    /\ th' = [th EXCEPT ![1].pc = "written"]
    /\ UNCHANGED << files, dir, keydir, keydirPoisoned, handles, bufWriters, writer,
                    hist, nops, extra, path >>

\* The rest of the call, the record being in the file: the size is added,
\* the file rotated when full, and Writer::set or Writer::remove updates
\* the keydir and returns.
Written ==
    /\ writer.live
    /\ th[1].pc = "written"
    /\ nops' = nops + 1
    /\ IF th[1].value.some
         THEN Writer_set(th[1].key, th[1].value.v)
         ELSE Writer_remove(th[1].key)
    /\ th' = IdleThreads
    /\ UNCHANGED << handles, bufWriters, extra, path, io >>

\* RustCaskBuilder::set_sync_mode(sync) and open, in a process that has no
\* store.
OpenSync(max, sync) ==
    /\ Down
    /\ ~writer.live
    /\ nops < MaxOps
    /\ nops' = nops + 1
    /\ UNCHANGED << writer, th, extra, path >>
    /\ OpenDir(max)
    /\ io' = [io EXCEPT !.sync_mode = sync, !.buffer = <<>>]

\* The BufWriter behind the writer mutex of handle 1.
ActiveWriter == bufWriters[handles[1].active_data_file_writer]

\* RustCask::set, lines 89-99, and RustCask::remove, lines 229-236: the
\* writer mutex is locked and write_all leaves the record in the buffer of
\* the BufWriter.
RWriteAll(k, optv) ==
    /\ 1 \in DOMAIN handles
    /\ th[1].pc = "idle"
    /\ nops < MaxOps
    /\ ~ActiveWriter.poisoned
    /\ th' = [th EXCEPT ![1] = [Idle EXCEPT !.pc = "flush", !.key = k,
                                            !.value = optv, !.off = ActiveWriter.pos]]
    /\ io' = [io EXCEPT !.buffer = @ \o serialize(LogFileEntry(k, optv))]
    /\ UNCHANGED << files, dir, keydir, keydirPoisoned, handles, bufWriters, writer,
                    hist, nops, extra, path >>

\* RustCask::set, line 101, and RustCask::remove, line 238: flush.
RFlush ==
    /\ 1 \in DOMAIN handles
    /\ th[1].pc = "flush"
    /\ files' = [files EXCEPT ![ActiveWriter.gen] = WriteAt(@, th[1].off, io.buffer)]
    /\ io' = [io EXCEPT !.buffer = <<>>]
    /\ th' = [th EXCEPT ![1].pc = after_flush(io.sync_mode)]
    /\ UNCHANGED << dir, keydir, keydirPoisoned, handles, bufWriters, writer,
                    hist, nops, extra, path >>

\* RustCask::set, lines 105-110, and RustCask::remove, lines 242-247:
\* sync_all.
RSyncAll ==
    /\ 1 \in DOMAIN handles
    /\ th[1].pc = "sync"
    /\ io' = [io EXCEPT !.durable =
                 [g \in DOMAIN @ \cup {ActiveWriter.gen} |->
                     IF g = ActiveWriter.gen THEN Len(files[g]) ELSE @[g]]]
    /\ th' = [th EXCEPT ![1].pc = "written"]
    /\ UNCHANGED << files, dir, keydir, keydirPoisoned, handles, bufWriters, writer,
                    hist, nops, extra, path >>

\* The rest of RustCask::set and RustCask::remove, the record being in the
\* file: the keydir is updated and the call returns.
RWritten ==
    /\ 1 \in DOMAIN handles
    /\ th[1].pc = "written"
    /\ nops' = nops + 1
    /\ IF th[1].value.some
         THEN RustCask_set(1, th[1].key, th[1].value.v)
         ELSE RustCask_remove(1, th[1].key)
    /\ th' = IdleThreads
    /\ UNCHANGED << writer, extra, path, io >>

\* One store in the process, a Writer or a RustCask, making one I/O call at
\* a time.
NextSync ==
    \/ \E m \in MaxSizes, sync \in BOOLEAN : WOpenSync(m, sync)
    \/ \E m \in MaxSizes, sync \in BOOLEAN : OpenSync(m, sync)
    \/ \E k \in Keys, v \in Values : RWriteAll(k, Some(v))
    \/ \E k \in Keys : RWriteAll(k, None)
    \/ RFlush
    \/ RSyncAll
    \/ RWritten
    \/ \E k \in Keys, v \in Values : WriteAll(k, Some(v))
    \/ \E k \in Keys : WriteAll(k, None)
    \/ Flush
    \/ SyncAll
    \/ Written

SpecSync == Init /\ [][NextSync]_vars

\* The Writer used for set and remove only, with close and re-open.
NextSetRemove ==
    \/ \E m \in MaxSizes : WOpen(m)
    \/ \E m \in MaxSizes : WReopen(m)
    \/ \E k \in Keys, v \in Values : WSet(k, v)
    \/ \E k \in Keys : WRemove(k)

SpecSetRemove == Init /\ [][NextSetRemove]_vars

\* Writer::new on a directory that holds no data file yet.
WOpenFresh(max) ==
    /\ dir = {}
    /\ WOpen(max)

\* ------------------------------------------------------------------ Writer on threads

\* The store handle keeps its Writer behind one mutex, which set, remove and
\* merge lock for the whole call; a holder has holds = 1.
WriterLocked == MutexHeld(1)

\* Thread t may start a call on the open store.
CanCallWriter(t) ==
    /\ writer.live
    /\ th[t].pc = "idle"
    /\ nops + InFlight < MaxOps

\* The threads after a step that may have ended the process.
AfterCall(t) == IF writer'.live THEN [th EXCEPT ![t] = Idle] ELSE IdleThreads

\* set through the handle: the writer lock, Writer::set, the unlock.
\* Writer::set takes keydir.write() for its keydir update.
TWSet(t, k, v) ==
    /\ CanCallWriter(t)
    /\ ~WriterLocked
    /\ ~KeydirWriteHeld /\ ~KeydirReadHeld
    /\ WSet(k, v)

\* remove through the handle: the writer lock, Writer::remove, the unlock.
TWRemove(t, k) ==
    /\ CanCallWriter(t)
    /\ ~WriterLocked
    /\ ~KeydirWriteHeld /\ ~KeydirReadHeld
    /\ nops' = nops + 1
    /\ Writer_remove(k)
    /\ th' = AfterCall(t)
    /\ UNCHANGED << handles, bufWriters, extra, path, io >>

\* merge through the handle: the writer lock is taken
TWMergeLock(t) ==
    /\ CanCallWriter(t)
    /\ ~WriterLocked
    /\ th' = [th EXCEPT ![t] = [Idle EXCEPT !.pc = "merge_lock", !.holds = 1]]
    /\ UNCHANGED << files, dir, keydir, keydirPoisoned, handles, bufWriters,
                    writer, hist, nops, extra, path, io >>

\* Writer::merge, its first statements: let mut keydir_guard =
\* self.keydir.write()
TWMergeBegin(t) ==
    /\ th[t].pc = "merge_lock"
    /\ ~KeydirWriteHeld /\ ~KeydirReadHeld
    /\ th' = [th EXCEPT ![t].pc = "merging"]
    /\ UNCHANGED << files, dir, keydir, keydirPoisoned, handles, bufWriters,
                    writer, hist, nops, extra, path, io >>

\* Writer::merge from the listing of the generations to its return, which
\* drops keydir_guard; then the unlock of the writer.
TWMergeEnd(t) ==
    /\ th[t].pc = "merging"
    /\ nops' = nops + 1
    /\ Writer_merge
    /\ th' = AfterCall(t)
    /\ UNCHANGED << handles, bufWriters, extra, path, io >>

\* get is called: its next statement is keydir.read()
TWGetCall(t, k) ==
    /\ CanCallWriter(t)
    /\ th' = [th EXCEPT ![t] = [Idle EXCEPT !.pc = "get_wait", !.key = k]]
    /\ UNCHANGED << files, dir, keydir, keydirPoisoned, handles, bufWriters,
                    writer, hist, nops, extra, path, io >>

\* get: keydir.read() returns the guard
TWGetLock(t) ==
    /\ th[t].pc = "get_wait"
    /\ ~KeydirWriteHeld
    /\ th' = [th EXCEPT ![t].pc = "get_read"]
    /\ UNCHANGED << files, dir, keydir, keydirPoisoned, handles, bufWriters,
                    writer, hist, nops, extra, path, io >>

\* get: the keydir lookup, the reader of the entry's generation, seek,
\* deserialize, return
TWGetRead(t) ==
    /\ th[t].pc = "get_read"
    /\ LET k == th[t].key
           r == IF k \notin DOMAIN keydir THEN Ok(None)
                ELSE IF ~ReaderFound(writer.readers, dir, keydir[k].data_file_gen)
                  THEN Panic
                ELSE read_entry(files, keydir[k], k)
       IN  /\ Returns(t, "get", r)
           /\ IF r.kind \in {"abort", "panic"}
                THEN WriterGone
                ELSE UNCHANGED << writer, keydir, keydirPoisoned >>
    /\ th' = AfterCall(t)
    /\ UNCHANGED << files, dir, handles, bufWriters, extra, path, io >>

NextMerging ==
    \/ \E m \in MaxSizes : WOpen(m)
    \/ \E t \in HandleIds, k \in Keys, v \in Values : TWSet(t, k, v)
    \/ \E t \in HandleIds, k \in Keys : TWRemove(t, k)
    \/ \E t \in HandleIds : TWMergeLock(t)
    \/ \E t \in HandleIds : TWMergeBegin(t)
    \/ \E t \in HandleIds : TWMergeEnd(t)
    \/ \E t \in HandleIds, k \in Keys : TWGetCall(t, k)
    \/ \E t \in HandleIds : TWGetLock(t)
    \/ \E t \in HandleIds : TWGetRead(t)

SpecMerging == Init /\ [][NextMerging]_vars

\* One Writer on a fresh directory and a workload of set and remove.
NextWorkload ==
    \/ \E m \in MaxSizes : WOpenFresh(m)
    \/ \E k \in Keys, v \in Values : WSet(k, v)
    \/ \E k \in Keys : WRemove(k)

SpecWorkload == Init /\ [][NextWorkload]_vars

\* ------------------------------------------------------------------ open on a prepared path

\* The generations of the data files put into the directory before open.
TouchedGens == { 1, 2 }

\* File::create(dir.join(name)) of a foreign name before the store is opened.
CreateForeignFile(n) ==
    /\ Down
    /\ is_dir(path)
    /\ n \notin extra
    /\ nops < MaxOps
    /\ nops' = nops + 1
    /\ extra' = extra \cup {n}
    /\ hist' = Record(Call("create", 0, <<>>, None, Ok(None)))
    /\ UNCHANGED << files, dir, keydir, keydirPoisoned, handles, bufWriters, writer,
                    th, path, io >>

\* File::create(dir.join("<g>.rustcask.data")) before the store is opened.
CreateDataFile(g) ==
    /\ Down
    /\ is_dir(path)
    /\ g \notin dir
    /\ nops < MaxOps
    /\ nops' = nops + 1
    /\ files' = Created(files, dir, g)
    /\ dir' = dir \cup {g}
    /\ hist' = Record(Call("create", 0, <<>>, None, Ok(None)))
    /\ UNCHANGED << keydir, keydirPoisoned, handles, bufWriters, writer, th, extra, path, io >>

\* The missing directory is created.
MakeDirectory ==
    /\ path = "missing"
    /\ nops < MaxOps
    /\ nops' = nops + 1
    /\ path' = "dir"
    /\ hist' = Record(Call("create", 0, <<>>, None, Ok(None)))
    /\ UNCHANGED << files, dir, keydir, keydirPoisoned, handles, bufWriters, writer,
                    th, extra, io >>

\* An earlier run of the store left one more record at the end of the data
\* file of generation g: a value or a tombstone of key k.  Earlier runs wrote
\* the generations in ascending order, and one call is kept for the open.
AppendRecord(g, k, optv) ==
    /\ ~writer.live
    /\ nops + 1 < MaxOps
    /\ \A x \in dir : x <= g
    /\ nops' = nops + 1
    /\ files' = [x \in DOMAIN files \cup {g} |->
                    (IF x \in dir THEN files[x] ELSE <<>>)
                      \o (IF x = g THEN serialize(LogFileEntry(k, optv)) ELSE <<>>)]
    /\ dir' = dir \cup {g}
    /\ hist' = Record(Call("append", g, k, optv, Ok(None)))
    /\ UNCHANGED << keydir, keydirPoisoned, handles, bufWriters, writer, th, extra, path, io >>

\* Open on a directory of data files written by earlier runs.
NextBuild ==
    \/ \E g \in TouchedGens, k \in Keys, v \in Values : AppendRecord(g, k, Some(v))
    \/ \E g \in TouchedGens, k \in Keys : AppendRecord(g, k, None)
    \/ \E m \in MaxSizes : WOpen(m)

SpecBuild == Init /\ [][NextBuild]_vars

NextOpen ==
    \/ \E n \in ForeignNames : CreateForeignFile(n)
    \/ \E g \in TouchedGens : CreateDataFile(g)
    \/ MakeDirectory
    \/ \E m \in MaxSizes : Open(m)
    \/ \E m \in MaxSizes : Reopen(m)
    \/ \E k \in Keys, v \in Values : Set(1, k, v)

SpecOpen == InitAnyPath /\ [][NextOpen]_vars

\* ------------------------------------------------------------------ observations

\* What the keydir entry of key k designates on disk: "absent" when the
\* keydir has no entry, "value" with the value when the bytes of the extent
\* in the entry's data file decode to a record of that key with a value
\* that fills the extent, "corrupt" otherwise.
Stored(kd, fs, d, k) ==
    IF k \notin DOMAIN kd THEN [state |-> "absent", v |-> <<>>]
    ELSE LET e == kd[k] IN
         IF e.data_file_gen \notin d THEN [state |-> "corrupt", v |-> <<>>]
         ELSE LET r == deserialize_from(fs[e.data_file_gen], e.index.offset) IN
              IF /\ r.kind = "ok"
                 /\ r.entry.key = k
                 /\ r.entry.value.some
                 /\ r.used = e.index.len
                THEN [state |-> "value", v |-> r.entry.value.v]
                ELSE [state |-> "corrupt", v |-> <<>>]

\* The key-to-value mapping of the store.
Mapping(kd, fs, d) == [k \in DOMAIN kd |-> Stored(kd, fs, d, k)]

\* The result a get of key k has to give in a store with this mapping.
Expected(kd, fs, d, k) ==
    LET s == Stored(kd, fs, d, k) IN
    IF s.state = "absent" THEN Ok(None)
    ELSE IF s.state = "value" THEN Ok(Some(s.v))
    ELSE Err

IsPrefix(a, b) == Len(a) <= Len(b) /\ SubSeq(b, 1, Len(a)) = a

\* The call before the last one.
Prev == hist[Len(hist) - 1]

\* ------------------------------------------------------------------ claims

\* C1: set(K,V) immediately followed by get(K) returns Some(V), and
\* set(K,V); remove(K); get(K) returns None.
C1_SetGetRemoveGet ==
    /\ ( /\ Len(hist) >= 2
         /\ Prev.op = "set" /\ Prev.res.kind = "ok"
         /\ Last.op = "get" /\ Last.h = Prev.h /\ Last.key = Prev.key )
       => Last.res = Ok(Prev.value)
    /\ ( /\ Len(hist) >= 3
         /\ hist[1].op = "set" /\ hist[1].res.kind = "ok"
         /\ hist[2].op = "remove" /\ hist[2].h = hist[1].h /\ hist[2].key = hist[1].key
         /\ hist[3].op = "get" /\ hist[3].h = hist[1].h /\ hist[3].key = hist[1].key )
       => hist[3].res = Ok(None)

\* The step is a call of op (every call appends to hist and counts).
Called(op) == nops' = nops + 1 /\ Last'.op = op

\* C2: after any sequence of set/remove operations, closing the engine and
\* re-opening the same directory yields the keydir key set and the
\* key-to-value mapping of the in-memory state before the close.
C2_ReopenKeepsMapping ==
    [][ (writer.live /\ Called("open"))
          => /\ Last'.res.kind = "ok"
             /\ Mapping(keydir', files', dir') = Mapping(keydir, files, dir) ]_vars

\* C3: after re-opening a directory whose active data file already holds
\* records, a set or remove appends its record after the existing bytes of
\* that file: no byte written before is overwritten, so the record of
\* every other key is still the one its keydir entry designated.
C3_AppendsAfterExistingBytes ==
    [][ (writer.live /\ (Called("set") \/ Called("remove")))
          => /\ \A g \in DOMAIN files : IsPrefix(files[g], files'[g])
             /\ \A k \in DOMAIN keydir \ {Last'.key} :
                    Stored(keydir, files', dir', k) = Stored(keydir, files, dir, k) ]_vars

\* C4: keydir invariant 1: for every keydir entry (g, off, len) of key K,
\* data file g exists and its bytes [off, off+len) decode to a record whose
\* key is K and whose value is present.
C4_KeydirEntriesDecode ==
    writer.live =>
        \A k \in DOMAIN keydir : Stored(keydir, files, dir, k).state = "value"

\* C5: keydir invariant 2: between operations, a key is in the keydir if
\* and only if its most recent on-disk record (generation order, then file
\* order) is a non-tombstone record.
C5_KeydirIffLastRecordLive ==
    writer.live => DOMAIN keydir = DOMAIN build_keydir(dir, files)

\* C6: remove(K) returns what a get(K) issued immediately before it would
\* have returned: Some(current value) when K is live, None without error
\* when K is absent; after it returns, K is not in the keydir.
C6_RemoveReturnsPriorValue ==
    [][ (~Down /\ Called("remove"))
          => /\ Last'.res = Expected(keydir, files, dir, Last'.key)
             /\ Last'.key \notin DOMAIN keydir' ]_vars

\* C7: merge() leaves the value of every key unchanged, and so does a
\* second merge(): every merge returns and preserves the key-to-value
\* mapping.
C7_MergePreservesMapping ==
    [][ (writer.live /\ Called("merge"))
          => /\ Last'.res.kind = "ok"
             /\ Mapping(keydir', files', dir') = Mapping(keydir, files, dir) ]_vars

\* The bytes of the data files in directory d.
RECURSIVE DirSize(_, _)
DirSize(fs, d) ==
    IF d = {} THEN 0
    ELSE LET g == CHOOSE x \in d : TRUE IN Len(fs[g]) + DirSize(fs, d \ {g})

\* The records of the data files in directory d, as the log iterator
\* yields them, in generation order.
RECURSIVE RecordsOf(_, _)
RecordsOf(fs, gens) ==
    IF gens = <<>> THEN <<>>
    ELSE LogFileIterator(fs[Head(gens)], 0).items \o RecordsOf(fs, Tail(gens))

\* The bytes of the records the keydir designates.
RECURSIVE LiveBytes(_, _)
LiveBytes(kd, ks) ==
    IF ks = {} THEN 0
    ELSE LET k == CHOOSE x \in ks : TRUE IN kd[k].index.len + LiveBytes(kd, ks \ {k})

C9_CloneObservesMutation ==
    /\ \A h \in DOMAIN handles : \A k \in DOMAIN keydir :
           keydir[k].data_file_gen \in handles[h].data_file_readers
    /\ ( /\ Len(hist) >= 2
         /\ Prev.op \in {"set", "remove"} /\ Prev.res.kind = "ok"
         /\ Last.op = "get" /\ Last.h # Prev.h /\ Last.key = Prev.key )
       => Last.res = Ok(Prev.value)

\* C10: when cloned handles call get on a populated store, every get
\* returns the value currently stored for its key, whatever the gets of
\* the other handles do.
C10_ClonedGetsReturnStoredValue ==
    [][ (Cardinality(DOMAIN handles) = 2 /\ Called("get"))
          => Last'.res = Expected(keydir, files, dir, Last'.key) ]_vars

\* The keydir change of the step is preceded by its record: a key that gets a
\* new entry while a store is open has the complete record of a value at the
\* entry's extent in the files as they were before the step, and a key that
\* leaves the keydir has its tombstone in a data file before the step.
WrittenBeforePublished ==
    \A k \in Keys :
        /\ ( /\ ~Down
             /\ k \in DOMAIN keydir'
             /\ k \notin DOMAIN keydir \/ keydir'[k] # keydir[k] )
           => Stored(keydir', files, dir, k).state = "value"
        /\ ( /\ k \in DOMAIN keydir
             /\ k \notin DOMAIN keydir'
             /\ ~Down' )
           => \E g \in dir : \E i \in 0..Len(files[g]) :
                  LET r == deserialize_from(files[g], i) IN
                  r.kind = "ok" /\ r.entry = create_tombstone_entry(k)

\* Every entry a get can see (no keydir write guard is alive) has the
\* complete record of a value of its key at its extent.
ReaderFindsRecordIn(kd, fs, d, held) ==
    ~held => \A k \in DOMAIN kd : Stored(kd, fs, d, k).state = "value"

ReaderFindsRecord == ReaderFindsRecordIn(keydir, files, dir, KeydirWriteHeld)

\* C11: write-then-publish: the record of every set and of every remove is
\* appended and flushed before the keydir change is visible, so a get on
\* another thread that sees a keydir entry finds the complete record at
\* the entry's extent.
C11_WriteThenPublish ==
    [][ /\ WrittenBeforePublished
        /\ \A held \in {KeydirWriteHeld'} :
               ReaderFindsRecordIn(keydir', files', dir', held) ]_vars

\* C12: set and remove hold the writer lock for their whole duration,
\* rotation included: the active generation of a handle changes only in a
\* step of a thread that holds the writer lock, a data file is written or
\* created only by such a thread, and at most one thread is between the
\* first and the last step of a set or a remove.
C12_WriterLockHeldThroughout ==
    [][ /\ \A t \in DOMAIN handles \cap DOMAIN handles' :
              handles'[t].active_generation # handles[t].active_generation
                  => th[t].holds # 0
        /\ (~Down /\ files' # files) => \E t \in HandleIds : th[t].holds # 0
        /\ Cardinality({ t \in HandleIds :
                  th'[t].pc \in {"set_write", "set_publish", "set_rotate",
                                 "remove_write", "remove_publish", "remove_read"} }) <= 1
      ]_vars

\* A thread is inside merge: it has the writer lock and has not returned.
MergeInProgress == \E t \in HandleIds : th[t].pc \in {"merge_lock", "merging"}

\* C13: while a merge is in progress no set and no remove on any handle
\* makes progress, whereas a get on another handle can complete: a get that
\* has been called is able to take its keydir read guard, and a get that
\* returns during the merge returns what the pre-merge keydir maps its key
\* to.
C13_MergeBlocksWritesNotReads ==
    [][ MergeInProgress =>
          /\ ~Called("set") /\ ~Called("remove")
          /\ \A u \in HandleIds :
                th[u].pc = "get_wait" => ENABLED TWGetLock(u)
          /\ Called("get") =>
                Last'.res = Expected(keydir, files, dir, Last'.key) ]_vars

C15_WritesRotateAtMax ==
    [][ (~Down /\ (Called("set") \/ Called("remove")) /\ Last'.res.kind = "ok")
          => LET before == handles[Last'.h]
                 after  == handles'[Last'.h]
             IN  /\ after.active_data_file_size < after.max_data_file_size
                 /\ after.max_data_file_size = 1
                      => /\ after.active_generation = before.active_generation + 1
                         /\ after.active_generation \in dir'
                         /\ after.active_data_file_size = 0 ]_vars

\* C18: invariant 5: all handles, clones included, agree on the active
\* generation, it is the highest generation of the directory, and the file
\* each handle appends to is the file of that generation.
C18_OneActiveGeneration ==
    \A h \in DOMAIN handles :
        /\ handles[h].active_generation = HighestGen(dir)
        /\ bufWriters[handles[h].active_data_file_writer].gen = HighestGen(dir)
        /\ \A o \in DOMAIN handles :
               handles[o].active_generation = handles[h].active_generation

C20_FailedMergeLeavesStore ==
    [][ (writer.live /\ Called("merge") /\ Last'.res.kind = "err")
          => /\ Last'.res.merge_generation = writer.active_generation + 1
             /\ keydir' = keydir
             /\ writer'.active_generation = writer.active_generation
             /\ dir \subseteq dir'
             /\ \A g \in dir : files'[g] = files[g]
             /\ \A k \in Keys :
                    Stored(keydir', files', dir', k) = Stored(keydir, files, dir, k) ]_vars

\* C16: open on an existing directory makes the highest generation among
\* the files named <gen>.rustcask.data the active generation, ignoring hint
\* files and every other file name; with no data file it creates
\* generation 0 and the keydir is empty.
C16_OpenPicksHighestDataFile ==
    [][ (Called("open") /\ path = "dir" /\ ~BuildPanics(dir, files))
          => LET active == IF dir = {} THEN 0 ELSE HighestGen(dir) IN
             /\ Last'.res.kind = "ok"
             /\ handles'[1].active_generation = active
             /\ dir' = dir \cup {active}
             /\ extra' = extra
             /\ dir = {} => (keydir' = KeyDir_new_empty /\ files'[0] = <<>>) ]_vars

\* C17: open on a path that does not exist or is not a directory returns
\* the BadDirectory error, creates no file or directory and gives no handle.
C17_OpenRejectsBadPath ==
    [][ (Called("open") /\ path # "dir")
          => /\ Last'.res = BadDirectory
             /\ DOMAIN handles' = {}
             /\ UNCHANGED << files, dir, extra, path, io >> ]_vars

\* open has been called on a path that is a regular file and has returned
\* BadDirectory.
C17_Witness ==
    /\ path = "file"
    /\ Len(hist) >= 1
    /\ Last.op = "open" /\ Last.res = BadDirectory

\* C30: a write that triggers rotation is attributed to the file it was
\* written to: the keydir entry that set creates names the generation that
\* was active before the rotation, which is the generation of the file the
\* bytes went to, with the offset and length of the record, and the bytes
\* at that extent of that generation's file are the record.
C30_RotatingWriteKeepsItsGeneration ==
    [][ ( /\ writer.live /\ writer'.live
          /\ Called("set") /\ Last'.res.kind = "ok"
          /\ writer'.active_generation = writer.active_generation + 1 )
          => LET k       == Last'.key
                 e       == keydir'[k]
                 encoded == serialize(LogFileEntry(k, Last'.value))
             IN  /\ e.data_file_gen = writer.active_generation
                 /\ e.data_file_gen # writer'.active_generation
                 /\ e.index = LogIndex(writer.pos, Len(encoded))
                 /\ e.data_file_gen = writer.file
                 /\ e.data_file_gen \in dir'
                 /\ SubSeq(files'[e.data_file_gen], e.index.offset + 1,
                           e.index.offset + e.index.len) = encoded ]_vars

\* C23: the active generation never decreases: not from one state of a
\* Writer to the next (set, remove, rotation, merge, drop and reopen), and
\* not across the end of the process, because an open Writer is always on
\* the highest generation of the directory and that generation never
\* decreases; a set or a remove that changes the active generation (a
\* rotation) increases it by exactly 1.
C23_ActiveGenerationMonotonic ==
    [][ /\ (writer.live /\ writer'.live)
              => writer'.active_generation >= writer.active_generation
        /\ dir # {} => (dir' # {} /\ HighestGen(dir') >= HighestGen(dir))
        /\ writer'.live => writer'.active_generation = HighestGen(dir')
        /\ ( /\ writer.live /\ writer'.live
             /\ Called("set") \/ Called("remove")
             /\ writer'.active_generation # writer.active_generation )
              => writer'.active_generation = writer.active_generation + 1 ]_vars

\* A Writer reopened on a directory whose generation had advanced by
\* rotation and by merge.
C23_Witness ==
    /\ writer.live
    /\ Last.op = "open"
    /\ writer.active_generation >= 2
    /\ Len(hist) = 3 /\ hist[2].op = "merge" /\ hist[1].op \in {"set", "remove"}

\* C25: after a merge that returns Ok the writer is in the Fresh state of
\* the latest merge generation M: active_generation = M, the highest
\* generation of the directory, active_data_file_size = 0 and the file the
\* writer has open is M's data file; and the set that follows a successful
\* merge leaves a keydir entry of generation M that decodes to its record.
C25_MergeLeavesWriterFresh ==
    [][ /\ (writer.live /\ Called("merge") /\ Last'.res.kind = "ok")
              => /\ writer'.live
                 /\ writer'.active_generation = HighestGen(dir')
                 /\ writer'.active_generation > writer.active_generation
                 /\ writer'.file = writer'.active_generation
                 /\ writer'.active_data_file_size = 0
        /\ ( /\ writer.live /\ Called("set")
             /\ Last.op = "merge" /\ Last.res.kind = "ok" )
              => /\ keydir'[Last'.key].data_file_gen = writer.active_generation
                 /\ Stored(keydir', files', dir', Last'.key)
                        = [state |-> "value", v |-> Last'.value.v] ]_vars

\* The bytes of the extent of entry e in the files fs.
ExtentBytes(fs, e) ==
    SubSeq(fs[e.data_file_gen], e.index.offset + 1, e.index.offset + e.index.len)

\* C29: merge copies every live record exactly once and byte for byte: a
\* merge that meets no I/O error returns Ok, the fresh keydir has the key
\* set of the pre-merge keydir, each entry keeps its record length and its
\* bytes, names a generation >= initial_merge_gen, and within each merge
\* file the extents of the entries start at 0 and follow one another
\* without gap or overlap up to the end of the file.
C29_MergeCopiesLiveRecordsOnce ==
    [][ (writer.live /\ Called("merge") /\ Last'.res.kind # "err")
          => /\ Last'.res.kind = "ok"
             /\ DOMAIN keydir' = DOMAIN keydir
             /\ \A k \in DOMAIN keydir :
                  /\ keydir'[k].index.len = keydir[k].index.len
                  /\ keydir'[k].data_file_gen >= writer.active_generation + 1
                  /\ keydir'[k].data_file_gen \in dir'
                  /\ ExtentBytes(files', keydir'[k]) = ExtentBytes(files, keydir[k])
                  /\ \/ keydir'[k].index.offset = 0
                     \/ \E j \in DOMAIN keydir' :
                          /\ keydir'[j].data_file_gen = keydir'[k].data_file_gen
                          /\ keydir'[j].index.offset + keydir'[j].index.len
                                = keydir'[k].index.offset
             /\ \A g \in dir' :
                  Len(files'[g])
                    = LiveBytes(keydir', { k \in DOMAIN keydir' :
                                             keydir'[k].data_file_gen = g }) ]_vars

\* C28: if the process stops at any point during merge, re-opening the
\* directory yields the pre-merge key-to-value mapping: for a store whose
\* keydir agreed with its data files before the merge, the keydir built
\* from the files left behind maps every key as the pre-merge keydir did;
\* no removed key reappears and no key gets an older value.
C28_MergeCrashKeepsMapping ==
    [][ ( /\ writer.live
          /\ Called("merge") /\ Last'.res = Crashed
          /\ ~BuildPanics(dir, files)
          /\ \A k \in Keys : Stored(build_keydir(dir, files), files, dir, k)
                               = Stored(keydir, files, dir, k) )
          => /\ ~BuildPanics(dir', files')
             /\ \A k \in Keys : Stored(build_keydir(dir', files'), files', dir', k)
                                  = Stored(keydir, files, dir, k) ]_vars

\* The records of each data file of d, as the iterator yields them.
Log(fs, d) == [g \in d |-> LogFileIterator(fs[g], 0).items]

\* The positions (generation, offset) of the records of key k in the log,
\* each with the record found there.
RecordsOfKey(log, k) ==
    UNION { { [gen |-> g, item |-> log[g][i]] :
                i \in { j \in DOMAIN log[g] : log[g][j].entry.key = k } } :
            g \in DOMAIN log }

\* Record a comes before record b in the log: lower generation, or the same
\* generation and lower offset.
LogBefore(a, b) ==
    \/ a.gen < b.gen
    \/ a.gen = b.gen /\ a.item.index.offset < b.item.index.offset

\* C27: the keydir built at open equals the replay of the log: after an
\* open that returns Ok, a key whose last record (highest generation, then
\* highest offset) has a value is mapped to the generation, offset and
\* length of that record, whose bytes are the encoding of the record, and a
\* key with no record or whose last record is a tombstone is not in the
\* keydir.
C27_BuildEqualsReplay ==
    [][ (~writer.live /\ Called("open") /\ Last'.res.kind = "ok")
          => \A log \in {Log(files', dir')} : \A k \in Keys :
             \A rs \in {RecordsOfKey(log, k)} :
               LET last == CHOOSE r \in rs : \A o \in rs : o = r \/ LogBefore(o, r)
               IN  IF rs # {} /\ last.item.entry.value.some
                     THEN /\ k \in DOMAIN keydir'
                          /\ keydir'[k] = KeyDirEntry(last.gen, last.item.index)
                          /\ ExtentBytes(files', keydir'[k]) = serialize(last.item.entry)
                     ELSE k \notin DOMAIN keydir' ]_vars

\* An open that found a key with a value in the lower generation and its
\* tombstone in the higher one, and another key whose value was replaced in
\* a later generation.
C27_Witness ==
    /\ writer.live
    /\ Last.op = "open" /\ Last.res.kind = "ok"
    /\ dir = TouchedGens
    /\ \E k \in Keys :
         /\ k \notin DOMAIN keydir
         /\ \E r \in RecordsOfKey(Log(files, dir), k) : r.gen = 1 /\ r.item.entry.value.some
         /\ \E r \in RecordsOfKey(Log(files, dir), k) : r.gen = 2 /\ ~r.item.entry.value.some
    /\ \E k \in DOMAIN keydir :
         /\ keydir[k].data_file_gen = 2
         /\ \E r \in RecordsOfKey(Log(files, dir), k) : r.gen = 1

\* A step of set, remove or merge in which an I/O call failed.
IoFailure ==
    \/ \E k \in Keys, v \in Values : WSetIoError(k, v)
    \/ \E k \in Keys : WRemoveIoError(k)
    \/ WMergeOpenError
    \/ WMergeIoError

\* C21: an I/O failure during set, remove or merge is returned to the
\* caller as the Io error of that operation: the call returns, its result
\* is an error, and the process goes on with the Writer it had.
C21_IoFailureReturned ==
    [][ IoFailure => (Last'.res.kind = "err" /\ writer'.live) ]_vars

\* No call is in progress on any handle.
Quiescent == \A t \in HandleIds : th[t].pc = "idle"

\* C26: the keydir updates of concurrent set and remove calls take effect
\* in the order of their records in the log: once all calls have returned,
\* each key has in the keydir the value that a replay of the data files in
\* generation order, then file order, gives it.
C26_KeydirOrderIsLogOrder ==
    (Quiescent /\ handles # NoHandles /\ ~keydirPoisoned)
      => /\ ~BuildPanics(dir, files)
         /\ \A k \in Keys :
              Stored(keydir, files, dir, k)
                = Stored(build_keydir(dir, files), files, dir, k)

\* The call of this step found a lock it acquires poisoned: the keydir lock
\* for get, the writer mutex of the calling handle or the keydir lock for
\* set and remove.
FindsPoisonedLock ==
    /\ nops' = nops + 1
    /\ Last'.op \in {"set", "get", "remove"}
    /\ Last'.h \in DOMAIN handles
    /\ \/ keydirPoisoned
       \/ /\ Last'.op \in {"set", "remove"}
          /\ bufWriters[handles[Last'.h].active_data_file_writer].poisoned

\* C24: after a panic under the writer lock or the keydir lock, a later
\* set, get or remove that acquires that lock panics too, and it has not
\* changed the data files, nor the keydir that the remaining handles see.
C24_PoisonedLockStopsCalls ==
    [][ FindsPoisonedLock
          => /\ Last'.res.kind = "panic"
             /\ files' = files
             /\ dir' = dir
             /\ (handles' # NoHandles => keydir' = keydir) ]_vars

\* The generation of the data file that the store of the process appends to.
ActiveFile == IF writer.live THEN writer.file ELSE ActiveWriter.gen

\* The bytes of the record of the call that thread 1 is making are in the
\* active data file at the offset the call took, and no byte is left in
\* the write buffer.
RecordFlushed ==
    /\ io.buffer = <<>>
    /\ th[1].off + Len(serialize(LogFileEntry(th[1].key, th[1].value)))
         <= Len(files[ActiveFile])
    /\ SubSeq(files[ActiveFile], th[1].off + 1,
              th[1].off + Len(serialize(LogFileEntry(th[1].key, th[1].value))))
         = serialize(LogFileEntry(th[1].key, th[1].value))

\* The bytes of that record have been made durable by sync_all.
RecordDurable ==
    /\ ActiveFile \in DOMAIN io.durable
    /\ th[1].off + Len(serialize(LogFileEntry(th[1].key, th[1].value)))
         <= io.durable[ActiveFile]

\* C22: when set or remove updates the keydir and returns, its record has
\* left the write buffer for the data file; with sync_mode it has also been
\* made durable by then, sync_all coming after the flush; without
\* sync_mode no call of set or remove makes anything durable.
C22_FlushThenSyncBeforePublish ==
    [][ /\ (nops' = nops + 1 /\ Last'.op \in {"set", "remove"})
            => /\ RecordFlushed
               /\ io.sync_mode => RecordDurable
               /\ io'.buffer = <<>>
        /\ (io'.durable # io.durable)
            => /\ io.sync_mode
               /\ io.buffer = <<>>
               /\ RecordFlushed ]_vars

\* A set under sync_mode has returned, its record durable, and a set
\* without sync_mode has returned in another run, nothing more made
\* durable.
C22_Witness ==
    /\ ~Down
    /\ th[1].pc = "idle"
    /\ Last.op = "set" /\ Last.res.kind = "ok"
    /\ ~io.sync_mode
    /\ \E g \in DOMAIN io.durable : 0 < io.durable[g] /\ io.durable[g] < Len(files[g])

\* C40: a merge started when the active generation is N leaves the writer
\* at a generation M with M > N + 1.
C40_MergeSkipsAGeneration ==
    [][ (writer.live /\ Called("merge") /\ Last'.res.kind = "ok")
          => writer'.active_generation > writer.active_generation + 1 ]_vars

\* C34: every call of BufReaderWithPos::seek terminates and returns the
\* offset it was given: a get of a key that is in the keydir, through a
\* handle that has the reader of the entry's generation, seeks to the
\* entry's offset, the seek hands back that offset, and the call returns to
\* its caller.
C34_SeekTerminates ==
    [][ ( /\ ~Down /\ ~keydirPoisoned
          /\ Called("get")
          /\ Last'.key \in DOMAIN keydir
          /\ keydir[Last'.key].data_file_gen
                \in handles[Last'.h].data_file_readers )
          => LET s == BufReaderWithPos_seek(keydir[Last'.key].index.offset, 0)
             IN  /\ s.returns
                 /\ s.offset = keydir[Last'.key].index.offset
                 /\ Last'.res.kind # "abort"
                 /\ ~Down' ]_vars

\* The position at which the log-file iterator stops in bytes: the end of
\* the last record it yields.
IteratorEnd(bytes) ==
    LET items == LogFileIterator(bytes, 0).items IN
    IF items = <<>> THEN 0
    ELSE items[Len(items)].index.offset + items[Len(items)].index.len

\* C33: the log-file iterator ends its sequence silently only at the end of
\* the file on a record boundary: an open that scans a data file whose
\* bytes go on after the last record the iterator yields (the file ends
\* inside a record) does not return Ok as if the file were complete.
C33_IteratorSignalsTornRecord ==
    [][ ( /\ ~writer.live
          /\ Called("open")
          /\ \E g \in dir : IteratorEnd(files[g]) < Len(files[g]) )
          => Last'.res.kind # "ok" ]_vars

\* The pairs that the log-file iterator yields from the data file of
\* generation g, none when the directory has no such file.
Yielded(fs, d, g) == IF g \in d THEN LogFileIterator(fs[g], 0).items ELSE <<>>

\* The bytes of the records of items, one after the other.
RECURSIVE Encoded(_)
Encoded(items) ==
    IF items = <<>> THEN <<>>
    ELSE serialize(Head(items).entry) \o Encoded(Tail(items))

\* C35: for a data file holding records written back to back the log-file
\* iterator yields one pair per record, in file order: a record appended to
\* the file adds one pair at the end, made of that record, the former length
\* of the file as offset and the encoded length of the record as len, and
\* leaves the earlier pairs as they were; at open the pairs of every file
\* start at offset 0, each starts where the one before ended, the last ends
\* at the end of the file, and their records encode to the bytes of the
\* file.
C35_IteratorYieldsEveryRecord ==
    [][ /\ Called("append")
          => \A g \in {Last'.h} : \A before \in {Yielded(files, dir, g)} :
             \A after \in {Yielded(files', dir', g)} :
             LET entry == LogFileEntry(Last'.key, Last'.value)
                 start == IF g \in dir THEN Len(files[g]) ELSE 0
             IN  /\ Len(after) = Len(before) + 1
                 /\ SubSeq(after, 1, Len(before)) = before
                 /\ after[Len(after)].entry = entry
                 /\ after[Len(after)].index = LogIndex(start, Len(serialize(entry)))
                 /\ ~LogFileIterator(files'[g], 0).panicked
        /\ (Called("open") /\ Last'.res.kind = "ok")
          => \A g \in dir : \A items \in {Yielded(files, dir, g)} :
               /\ items # <<>> => items[1].index.offset = 0
               /\ \A i \in DOMAIN items :
                    /\ items[i].index.len = Len(serialize(items[i].entry))
                    /\ i > 1 => items[i].index.offset
                                  = items[i-1].index.offset + items[i-1].index.len
               /\ IteratorEnd(files[g]) = Len(files[g])
               /\ Encoded(items) = files[g] ]_vars

\* An open has scanned a data file of three records: a value, a longer
\* value and a tombstone.
C35_Witness ==
    /\ writer.live
    /\ Last.op = "open" /\ Last.res.kind = "ok"
    /\ \E g \in dir : \E items \in {Yielded(files, dir, g)} :
         /\ Len(items) >= 3
         /\ \E i, j, l \in DOMAIN items :
              /\ i < j /\ j < l
              /\ items[i].index.len < items[j].index.len
              /\ ~items[l].entry.value.some

\* C32: the records of a data file are contiguous and do not overlap: a set
\* or a remove leaves the active data file as it was with the encoded record
\* added at its end, and the entry that set creates has as offset the end of
\* the records written to that file before (0 for the first) and as length
\* the byte count of the encoded record.
C32_RecordsContiguous ==
    [][ (writer.live /\ (Called("set") \/ Called("remove")))
          => LET f       == writer.file
                 encoded == serialize(LogFileEntry(Last'.key, Last'.value))
             IN  /\ files'[f] = files[f] \o encoded
                 /\ (Last'.op = "set" /\ Last'.res.kind = "ok")
                      => /\ keydir'[Last'.key].data_file_gen = f
                         /\ keydir'[Last'.key].index
                              = LogIndex(IteratorEnd(files[f]), Len(encoded)) ]_vars


\* C31: between operations active_data_file_size is the byte length of the
\* active data file: the length of the file at open, grown by the encoded
\* length of each record written, and 0 after a rotation and after a merge.
C31_SizeIsFileLength ==
    /\ \A h \in DOMAIN handles :
          handles[h].active_data_file_size = Len(files[handles[h].active_generation])
    /\ writer.live
          => writer.active_data_file_size = Len(files[writer.active_generation])


\* ------------------------------------------------------------------ RustCask::set, I/O errors

\* The calls of RustCask::set on the BufWriter that can return an
\* io::Error, each mapped to SetError and returned with `?`.  write_all
\* only copies a record of this size into the buffer of the BufWriter.
FailingCalls == {"stream_position", "flush", "sync_all"}

\* The bytes the BufWriter w holds or is given when the call fails: what an
\* earlier failed flush left and, past stream_position, the record.
Buffered(w, encoded, call) ==
    IF call = "stream_position" THEN w.unflushed ELSE w.unflushed \o encoded

\* The numbers of bytes of Buffered that reached the file before the call
\* failed: stream_position and flush fail inside BufWriter::flush_buf with
\* a part of the buffer unwritten (stream_position on an empty buffer fails
\* in the seek, with nothing written); sync_all fails after the whole.
WrittenBefore(w, encoded, call) ==
    LET b == Buffered(w, encoded, call) IN
    IF call = "sync_all" THEN {Len(b)}
    ELSE IF call = "flush" THEN {Len(w.unflushed), Len(w.unflushed) + Len(encoded) \div 2}
    ELSE {0}

\* The mutation of RustCask_set_failing: the counter is advanced before the
\* flush instead of after the sync.
RustCask_set_failing_counts_first(h, k, v, call, n) ==
    LET hd      == handles[h]
        wi      == hd.active_data_file_writer
        w       == bufWriters[wi]
        encoded == serialize(LogFileEntry(k, Some(v)))
        b       == Buffered(w, encoded, call)
        start   == w.pos - Len(w.unflushed)
    IN  /\ files' = [files EXCEPT ![w.gen] = WriteAt(@, start, SubSeq(b, 1, n))]
        /\ bufWriters' = [bufWriters EXCEPT ![wi].pos = start + Len(b),
                                            ![wi].unflushed = SubSeq(b, n + 1, Len(b))]
        /\ handles' = IF call = "stream_position" THEN handles
                      ELSE [handles EXCEPT ![h].active_data_file_size = @ + Len(encoded)]
        /\ hist' = Record(Call("set", h, k, Some(v), Err))
        /\ UNCHANGED << dir, keydir, keydirPoisoned >>

\* RustCask::set when the call `call` returns an io::Error after n of the
\* buffered bytes reached the file at the position of the BufWriter; the
\* bytes not written stay in its buffer.  The function returns at the `?`
\* of that call: the statements after it (active_data_file_size +=,
\* keydir.write().set, the rotation) are not reached.
RustCask_set_failing(h, k, v, call, n) ==
    LET hd      == handles[h]
        wi      == hd.active_data_file_writer
        w       == bufWriters[wi]
        encoded == serialize(LogFileEntry(k, Some(v)))
        b       == Buffered(w, encoded, call)
        start   == w.pos - Len(w.unflushed)
    IN  /\ files' = [files EXCEPT ![w.gen] = WriteAt(@, start, SubSeq(b, 1, n))]
        /\ bufWriters' = [bufWriters EXCEPT ![wi].pos = start + Len(b),
                                            ![wi].unflushed = SubSeq(b, n + 1, Len(b))]
        /\ hist' = Record(Call("set", h, k, Some(v), Err))
        /\ UNCHANGED << dir, keydir, keydirPoisoned, handles >>

\* A call of RustCask::set that returns SetErrorKind::Io.
SetIoError(h, k, v) ==
    /\ h \in DOMAIN handles
    /\ ~bufWriters[handles[h].active_data_file_writer].poisoned
    /\ nops < MaxOps
    /\ nops' = nops + 1
    /\ UNCHANGED << writer, th, extra, path, io >>
    /\ \E call \in FailingCalls :
         \E n \in WrittenBefore(bufWriters[handles[h].active_data_file_writer],
                                serialize(LogFileEntry(k, Some(v))), call) :
            RustCask_set_failing(h, k, v, call, n)

\* One handle, values of one byte, on a file system whose calls can fail.
NextSetError ==
    \/ \E m \in MaxSizes : Open(m)
    \/ \E k \in Keys : Set(1, k, <<7>>)
    \/ \E k \in Keys : Get(1, k)
    \/ \E k \in Keys : Remove(1, k)
    \/ \E k \in Keys : SetIoError(1, k, <<7>>)

SpecSetError == Init /\ [][NextSetError]_vars

C37_OtherKeysKeepTheirValue ==
    [][ ( /\ writer.live /\ writer'.live
          /\ (Called("set") \/ Called("remove") \/ Called("merge")) )
          => \A k \in Keys :
                (Last'.op = "merge" \/ k # Last'.key)
                   => Expected(keydir', files', dir', k)
                        = Expected(keydir, files, dir, k) ]_vars


\* C36: a merge that returned an I/O error, its merge files left in the
\* directory, is as if it had not been attempted: an open of the directory
\* builds after it the key-to-value mapping it would have built before it,
\* and the set or remove that follows it leaves its key with the value set,
\* or absent, in the keydir and in the mapping that an open then builds.
C36_FailedMergeLeavesNoTrace ==
    [][ /\ (writer.live /\ Called("merge") /\ Last'.res.kind = "err")
           => \A before \in {build_keydir(dir, files)},
                 after  \in {build_keydir(dir', files')} :
                 Mapping(after, files', dir') = Mapping(before, files, dir)
        /\ ( /\ writer.live /\ hist # <<>>
             /\ Last.op = "merge" /\ Last.res.kind = "err"
             /\ (Called("set") \/ Called("remove")) )
           => \A reopened \in {build_keydir(dir', files')} :
                 \A s \in {Stored(keydir', files', dir', Last'.key),
                           Stored(reopened, files', dir', Last'.key)} :
                    s = IF Last'.op = "set"
                          THEN [state |-> "value", v |-> Last'.value.v]
                          ELSE [state |-> "absent", v |-> <<>>] ]_vars


\* The scheduler runs every thread that can take a step: a call that has
\* started and is not blocked goes on.
SpecMergingFair ==
    /\ SpecMerging
    /\ \A t \in HandleIds :
          WF_vars(TWMergeBegin(t) \/ TWMergeEnd(t) \/ TWGetLock(t) \/ TWGetRead(t))

\* C39: no interleaving of get, set, remove and merge deadlocks: a thread
\* that holds the keydir write guard holds the writer lock, a thread inside
\* get holds no writer lock, and under fair scheduling every call that has
\* started returns to its caller.
C39_EveryCallReturns ==
    /\ [](\A t \in HandleIds :
            /\ th[t].pc = "merging" => th[t].holds = 1
            /\ th[t].pc \in {"get_wait", "get_read"} => th[t].holds = 0)
    /\ \A t \in HandleIds :
          /\ (th[t].pc \in {"get_wait", "get_read"})
                ~> ( /\ th[t].pc = "idle" /\ hist # <<>>
                     /\ Last.op = "get" /\ Last.h = t
                     /\ Last.res.kind \notin {"abort", "panic"} )
          /\ (th[t].pc \in {"merge_lock", "merging"})
                ~> ( /\ th[t].pc = "idle" /\ hist # <<>>
                     /\ Last.op = "merge"
                     /\ Last.res.kind \notin {"abort", "panic"} )

=============================================================================
